---- MODULE Spec2Model ----
(***************************************************************************)
(* Unshackle content script: the canvas watch loop (tickCanvasWatch,       *)
(* startCanvasWatch, stopCanvasWatch), its hasher, distance metric and     *)
(* namer, and the shared cache STATE.images the captured frames go to.     *)
(*                                                                         *)
(* JavaScript runs one handler at a time: a handler runs from its start    *)
(* (or from the await it was suspended in) to its next await or its end    *)
(* without interleaving.  Each action below is one such run.               *)
(***************************************************************************)
EXTENDS Integers, Sequences, FiniteSets, TLC

(***************************************************************************)
(* Bounds of the model.                                                    *)
(***************************************************************************)
\* The page draws new content on a canvas at most this many times.
MaxDraws == 2
\* At most this many scans (scanAll) are started.
MaxScans == 2
\* Where scans run beside the canvas watch, the page draws new content at most
\* this many times.
ScanDraws == 1
\* Where hammingDistance is applied to arrays of several bytes, they have at
\* most this many.
MaxLen == 2
\* Where the bits of a grid are computed on their own, the grid has at most
\* this many cells.
MaxCells == 9
\* Where start() is called with options of every kind, the page draws new
\* content at most this many times.
OptDraws == 1
\* uniquifyName is called at most this many times in a row.
MaxCalls == 4

\* The number of calls of setUIMode and setSetting in a behaviour.
MaxSets == 2
\* A task reports at most this many items.
MaxTotal == 2
\* The toggle of the panel is changed at most this many times.
MaxToggles == 4

(***************************************************************************)
(* Values.                                                                 *)
(***************************************************************************)
\* JavaScript null / undefined.  A nullable value v is <<v>>, null is <<>>.
null == <<>>
Some(v) == <<v>>
Val(o) == o[1]

\* The canvases of the page, in document order (querySelectorAll('canvas')).
Canvases == <<"cvA", "cvB">>
CanvasSet == {Canvases[i] : i \in 1..Len(Canvases)}

\* The contents a canvas can show.
Frames == {0, 1, 2}

\* CANVAS_WATCH.hashSize
hashSize == 32

\* The result of hammingDistance for operands it cannot compare.
Infinity == -1

\* dist >= threshold, where dist may be Infinity.
AtLeast(dist, t) == dist = Infinity \/ dist >= t

(***************************************************************************)
(* 32-bit integer operators on non-negative operands.                      *)
(***************************************************************************)
RECURSIVE BitAnd(_, _)
BitAnd(x, y) ==
  IF x = 0 \/ y = 0 THEN 0
  ELSE (x % 2) * (y % 2) + 2 * BitAnd(x \div 2, y \div 2)

\* x & ~y in the place of x ^ y.
RECURSIVE BitXorOneSided(_, _)
BitXorOneSided(x, y) ==
  IF x = 0 THEN 0
  ELSE (x % 2) * (1 - (y % 2)) + 2 * BitXorOneSided(x \div 2, y \div 2)

RECURSIVE BitXor(_, _)
BitXor(x, y) ==
  IF x = 0 THEN y
  ELSE IF y = 0 THEN x
  ELSE ((x + y) % 2) + 2 * BitXor(x \div 2, y \div 2)

\* s[lo] + ... + s[hi]
RECURSIVE SumRange(_, _, _)
SumRange(s, lo, hi) ==
  IF lo > hi THEN 0
  ELSE IF lo = hi THEN s[lo]
  ELSE LET mid == (lo + hi) \div 2
       IN  SumRange(s, lo, mid) + SumRange(s, mid + 1, hi)

RECURSIVE Pow2(_)
Pow2(n) == IF n = 0 THEN 1 ELSE 2 * Pow2(n - 1)

\* x >>> n
Shr(x, n) == x \div Pow2(n)

(***************************************************************************)
(* hammingDistance(a, b): a and b are nullable byte arrays.                *)
(***************************************************************************)
\* The iteration without the mask 0x0F of line 193.
ByteDistanceUnmasked(ai, bi) ==
  LET x0 == BitXor(ai, bi)
      x1 == x0 - BitAnd(Shr(x0, 1), 85)
      x2 == BitAnd(x1, 51) + BitAnd(Shr(x1, 2), 51)
  IN  (x2 + Shr(x2, 4)) * 1

\* One iteration of the loop: the number of one bits of a[i] ^ b[i].
ByteDistance(ai, bi) ==
  LET x0 == BitXor(ai, bi)
      x1 == x0 - BitAnd(Shr(x0, 1), 85)
      x2 == BitAnd(x1, 51) + BitAnd(Shr(x1, 2), 51)
  IN  BitAnd(x2 + Shr(x2, 4), 15) * 1

\* The loop with the bound i < a.length - 1: the last byte is not compared.
HammingLoopShort(a, b) ==
  SumRange([i \in 1..Len(a) |-> ByteDistance(a[i], b[i])], 1, Len(a) - 1)

\* The loop over i: d is the sum of the byte distances.  (Summed by halves:
\* the sum is the same, the evaluation is shallower.)
HammingLoop(a, b) ==
  SumRange([i \in 1..Len(a) |-> ByteDistance(a[i], b[i])], 1, Len(a))

\* hammingDistance comparing the bytes both arrays have when the lengths
\* differ.
hammingDistanceTruncating(a, b) ==
  IF a = null \/ b = null THEN Infinity
  ELSE LET n == IF Len(Val(a)) < Len(Val(b)) THEN Len(Val(a)) ELSE Len(Val(b))
       IN  HammingLoop(SubSeq(Val(a), 1, n), SubSeq(Val(b), 1, n))

hammingDistance(a, b) ==
  IF a = null \/ b = null \/ Len(Val(a)) # Len(Val(b)) THEN Infinity
  ELSE HammingLoop(Val(a), Val(b))

(***************************************************************************)
(* hashCanvasPixels: the part after the pixels were read.  gray is the     *)
(* luminance of the size*size cells, row by row.                           *)
(***************************************************************************)
\* gray[k] >= mean in the place of gray[k] > mean.
LitOrEqual(gray, mean, k) == k < Len(gray) /\ gray[k + 1] >= mean

\* gray[k] > mean, k counted from 0 as in the source.
Lit(gray, mean, k) == k < Len(gray) /\ gray[k + 1] > mean

hashBits(gray) ==
  LET mean == SumRange(gray, 1, Len(gray)) \div Len(gray)
      nbytes == Shr(Len(gray) + 7, 3)
  IN  [n \in 1..nbytes |->
         LET base == 8 * (n - 1)
         IN  SumRange([b \in 1..8 |->
                         IF Lit(gray, mean, base + b - 1) THEN Pow2(b - 1) ELSE 0],
                      1, 8)]

\* The cells frame k shows after downsampling to the hash grid: its first
\* 24 * k cells are white, the others black.
FrameGray(k) ==
  [j \in 1..(hashSize * hashSize) |-> IF j <= 24 * k THEN 255 ELSE 0]

\* The fingerprint of every frame (computed once).
FrameHash == [k \in Frames |-> hashBits(FrameGray(k))]
FrameHashes == {FrameHash[k] : k \in Frames}

\* hammingDistance of every two of these fingerprints (computed once).
FrameDistance ==
  [a \in FrameHashes, b \in FrameHashes |-> hammingDistance(Some(a), Some(b))]

\* hammingDistance(a, b), looked up where it was computed before.
Distance(a, b) ==
  IF a # null /\ b # null /\ Val(a) \in FrameHashes /\ Val(b) \in FrameHashes
  THEN FrameDistance[Val(a), Val(b)]
  ELSE hammingDistance(a, b)

(***************************************************************************)
(* uniquifyName.  A name is a sequence of characters.                      *)
(***************************************************************************)
Digit(d) == <<"0", "1", "2", "3", "4", "5", "6", "7", "8", "9">>[d + 1]

\* `${i}` for an integer i >= 0.
RECURSIVE Decimal(_)
Decimal(i) == IF i < 10 THEN <<Digit(i)>> ELSE Decimal(i \div 10) \o <<Digit(i % 10)>>

\* name.indexOf('.') in the place of lastIndexOf: the first dot.
LastDotFirst(name) ==
  LET dots == {i \in 1..Len(name) : name[i] = "."}
  IN  IF dots = {} THEN -1
      ELSE (CHOOSE i \in dots : \A j \in dots : i <= j) - 1

\* name.lastIndexOf('.'): the 0-based index of the last dot, -1 if none.
LastDot(name) ==
  LET dots == {i \in 1..Len(name) : name[i] = "."}
  IN  IF dots = {} THEN -1
      ELSE (CHOOSE i \in dots : \A j \in dots : j <= i) - 1

\* The do-while loop: the first candidate base-i ext, i = 2, 3, ... not seen.
RECURSIVE FirstFree(_, _, _, _)
FirstFree(base, ext, i, seen) ==
  LET candidate == base \o <<"-">> \o Decimal(i) \o ext
  IN  IF candidate \in seen THEN FirstFree(base, ext, i + 1, seen) ELSE candidate

\* uniquifyName without line 147: the candidate is not recorded.
uniquifyNameUnrecorded(name, seen) ==
  IF name \notin seen THEN [name |-> name, seen |-> seen \cup {name}]
  ELSE LET dot == LastDot(name)
           base == IF dot >= 0 THEN SubSeq(name, 1, dot) ELSE name
           ext == IF dot >= 0 THEN SubSeq(name, dot + 1, Len(name)) ELSE <<>>
           candidate == FirstFree(base, ext, 2, seen)
       IN  [name |-> candidate, seen |-> seen]

\* Returns the name issued and STATE._seenNames after the call.
uniquifyName(name, seen) ==
  IF name \notin seen THEN [name |-> name, seen |-> seen \cup {name}]
  ELSE LET dot == LastDot(name)
           base == IF dot >= 0 THEN SubSeq(name, 1, dot) ELSE name
           ext == IF dot >= 0 THEN SubSeq(name, dot + 1, Len(name)) ELSE <<>>
           candidate == FirstFree(base, ext, 2, seen)
       IN  [name |-> candidate, seen |-> seen \cup {candidate}]

\* `canvas_${seqNum}.png`
CanvasName(seqNum) ==
  <<"c", "a", "n", "v", "a", "s", "_">> \o Decimal(seqNum) \o <<".", "p", "n", "g">>

(***************************************************************************)
(* WeakMap keyed by canvas: a function on the canvases that were set.      *)
(***************************************************************************)
NewWeakMap == [c \in {} |-> 0]
Get(m, cv) == IF cv \in DOMAIN m THEN Some(m[cv]) ELSE null
Set(m, cv, v) == [c \in (DOMAIN m) \cup {cv} |-> IF c = cv THEN v ELSE m[c]]

(***************************************************************************)
(* State.                                                                  *)
(***************************************************************************)
VARIABLES
  on,            \* CANVAS_WATCH.on
  rafId,         \* CANVAS_WATCH.rafId
  lastHash,      \* CANVAS_WATCH.lastHash
  seq,           \* CANVAS_WATCH.seq
  threshold,     \* CANVAS_WATCH.threshold
  autoDownload,  \* CANVAS_WATCH.autoDownload
  targetTabId,   \* CANVAS_WATCH.targetTabId
  images,        \* STATE.images
  seenNames,     \* STATE._seenNames
  rafPending,    \* handles of the animation-frame callbacks requested and not
                 \* yet run or cancelled
  ticks,         \* tickCanvasWatch calls suspended in `await captureElementRect`
  sink,          \* file names of the downloadURLs messages sent
  content,       \* the frame each canvas shows
  draws,         \* the number of times the page drew new content
  trig,          \* history: the number of changes detected so far
  drift,         \* history: the canvases the last step sampled at a distance
                 \* above 0 and below the threshold
  autoScan,      \* AUTO_SCAN.enabled
  scans,         \* scanCanvases calls suspended in `await captureElementRect`
  scanned,       \* history: the number of scans started so far
  arg,           \* the operands and locals of the part of the script looked at
  res            \* the result of that call, null before the call

vars == <<on, rafId, lastHash, seq, threshold, autoDownload, targetTabId,
          images, seenNames, rafPending, ticks, sink, content, draws,
          trig, drift, autoScan, scans, scanned, arg, res>>

\* obs[c], the log of one handler run, is "first" when the run stored the first
\* hash of canvas c, "same" or "drift" when it compared c's hash and found the
\* distance 0, or above 0 and below the threshold, "change" when it found it
\* at or above the threshold, and "none" when it compared nothing.
NoObs == [c \in CanvasSet |-> "none"]

\* The state the handlers read and write, as one record.  await tells whether
\* the handler that ran last stopped in an await, threw whether an exception
\* ended it.
Prog ==
  [on |-> on, rafId |-> rafId, lastHash |-> lastHash, seq |-> seq,
   threshold |-> threshold, autoDownload |-> autoDownload,
   targetTabId |-> targetTabId, images |-> images, seenNames |-> seenNames,
   rafPending |-> rafPending, ticks |-> ticks, sink |-> sink,
   trig |-> trig, obs |-> NoObs, await |-> FALSE, threw |-> FALSE,
   autoScan |-> autoScan, scans |-> scans, scanned |-> scanned]

\* The next state of the program is the record p, the page unchanged.
BecomesProg(p) ==
  /\ on' = p.on
  /\ rafId' = p.rafId
  /\ lastHash' = p.lastHash
  /\ seq' = p.seq
  /\ threshold' = p.threshold
  /\ autoDownload' = p.autoDownload
  /\ targetTabId' = p.targetTabId
  /\ images' = p.images
  /\ seenNames' = p.seenNames
  /\ rafPending' = p.rafPending
  /\ ticks' = p.ticks
  /\ sink' = p.sink
  /\ trig' = p.trig
  /\ drift' = {c \in CanvasSet : p.obs[c] = "drift"}
  /\ content' = content
  /\ draws' = draws
  /\ autoScan' = p.autoScan
  /\ scans' = p.scans
  /\ scanned' = p.scanned

\* The next state is the record p, the page unchanged.
Becomes(p) ==
  /\ BecomesProg(p)
  /\ UNCHANGED <<arg, res>>

\* The script as loaded.
Loaded ==
  /\ on = FALSE
  /\ rafId = 0
  /\ lastHash = NewWeakMap
  /\ seq = NewWeakMap
  /\ threshold = 40
  /\ autoDownload = FALSE
  /\ targetTabId = null
  /\ images = <<>>
  /\ seenNames = {}
  /\ rafPending = {}
  /\ ticks = {}
  /\ sink = <<>>
  /\ content = [c \in CanvasSet |-> 0]
  /\ draws = 0
  /\ trig = 0
  /\ drift = {}
  /\ autoScan = FALSE
  /\ scans = {}
  /\ scanned = 0

Init ==
  /\ Loaded
  /\ arg = null
  /\ res = null

(***************************************************************************)
(* The host: requestAnimationFrame / cancelAnimationFrame.                 *)
(***************************************************************************)
\* A handle no pending callback has.  (Browsers count handles up; a handle is
\* only ever compared for identity, and requestTick overwrites rafId with the
\* new handle at once, so reusing the handle of a callback that ran or was
\* cancelled changes no comparison.)  A tick chain beyond the first needs a
\* tick suspended in a capture, and so a change drawn by the page.
NewHandle(p) ==
  CHOOSE h \in 1..(MaxDraws + 2) :
    /\ h \notin p.rafPending
    /\ \A g \in 1..(h - 1) : g \in p.rafPending

\* CANVAS_WATCH.rafId = requestAnimationFrame(tickCanvasWatch)
requestTick(p) ==
  LET h == NewHandle(p)
  IN  [p EXCEPT !.rafId = h, !.rafPending = @ \cup {h}]

(***************************************************************************)
(* startCanvasWatch(opts), stopCanvasWatch().                              *)
(***************************************************************************)
\* The options the panel sends with the message startCanvasWatch
\* (handleAutoCanvasChange): { autoDownload: false }.  A missing field is null.
PanelOpts == { [autoDownload |-> Some(FALSE), tabId |-> null] }

\* startCanvasWatch, were the catalog and the issued names reset with the
\* hashes and counters.
startCanvasWatchReset(p, opts) ==
  IF p.on THEN p
  ELSE requestTick(
         [p EXCEPT !.on = TRUE,
                   !.autoDownload = (opts.autoDownload # null /\ Val(opts.autoDownload)),
                   !.targetTabId = IF opts.tabId = null \/ Val(opts.tabId) = 0
                                   THEN null ELSE opts.tabId,
                   !.lastHash = NewWeakMap,
                   !.seq = NewWeakMap,
                   !.images = <<>>,
                   !.seenNames = {}])

\* startCanvasWatch, were the threshold taken from the options.
startCanvasWatchConfigured(p, opts) ==
  IF p.on THEN p
  ELSE requestTick(
         [p EXCEPT !.on = TRUE,
                   !.autoDownload = (opts.autoDownload # null /\ Val(opts.autoDownload)),
                   !.targetTabId = IF opts.tabId = null \/ Val(opts.tabId) = 0
                                   THEN null ELSE opts.tabId,
                   !.threshold = IF opts.threshold = null THEN 40
                                 ELSE Val(opts.threshold),
                   !.lastHash = NewWeakMap,
                   !.seq = NewWeakMap])

\* startCanvasWatch without its first line, `if (CANVAS_WATCH.on) return`.
startCanvasWatchUnguarded(p, opts) ==
  requestTick(
    [p EXCEPT !.on = TRUE,
              !.autoDownload = (opts.autoDownload # null /\ Val(opts.autoDownload)),
              !.targetTabId = IF opts.tabId = null \/ Val(opts.tabId) = 0
                              THEN null ELSE opts.tabId,
              !.lastHash = NewWeakMap,
              !.seq = NewWeakMap])

\* startCanvasWatch(opts = {}) (lines 462-471).  `opts.autoDownload || false`
\* and `opts.tabId || null`: a missing field, false and 0 give the default.
startCanvasWatch(p, opts) ==
  IF p.on THEN p
  ELSE requestTick(
         [p EXCEPT !.on = TRUE,
                   !.autoDownload = (opts.autoDownload # null /\ Val(opts.autoDownload)),
                   !.targetTabId = IF opts.tabId = null \/ Val(opts.tabId) = 0
                                   THEN null ELSE opts.tabId,
                   !.lastHash = NewWeakMap,
                   !.seq = NewWeakMap])

\* stopCanvasWatch without its first line, `if (!CANVAS_WATCH.on) return`.
stopCanvasWatchUnguarded(p) ==
  LET q == [p EXCEPT !.on = FALSE]
  IN  IF q.rafId # 0
      THEN [q EXCEPT !.rafPending = @ \ {q.rafId}, !.rafId = 0]
      ELSE q

stopCanvasWatch(p) ==
  IF ~p.on THEN p
  ELSE LET q == [p EXCEPT !.on = FALSE]
       IN  IF q.rafId # 0
           THEN [q EXCEPT !.rafPending = @ \ {q.rafId}, !.rafId = 0]
           ELSE q

(***************************************************************************)
(* tickCanvasWatch.                                                        *)
(***************************************************************************)
\* What one iteration finds of its canvas: the dimensions, whether
\* hashCanvasPixels can read it, whether toDataURL can encode it.  A canvas
\* that cannot be read fails hashCanvasPixels in one of two places: in the
\* try block of lines 162-166 (getContext gave no context, drawImage threw),
\* or at getImageData (line 167), which is outside the try block and throws a
\* SecurityError when the canvas drawn was tainted by cross-origin data
\* (drawImage accepts a tainted canvas and taints the canvas drawn on).
SampleCases ==
  { [w |-> 0, h |-> 1, readable |-> TRUE, throws |-> FALSE, encodable |-> TRUE],
    [w |-> 1, h |-> 0, readable |-> TRUE, throws |-> FALSE, encodable |-> TRUE],
    [w |-> 1, h |-> 1, readable |-> FALSE, throws |-> FALSE, encodable |-> TRUE],
    [w |-> 1, h |-> 1, readable |-> FALSE, throws |-> TRUE, encodable |-> FALSE],
    [w |-> 1, h |-> 1, readable |-> TRUE, throws |-> FALSE, encodable |-> TRUE],
    [w |-> 1, h |-> 1, readable |-> TRUE, throws |-> FALSE, encodable |-> FALSE] }

\* What the iterations for the canvases at the indices i, i + 1, ... find.
InputsFrom(i) == [{Canvases[j] : j \in i..Len(Canvases)} -> SampleCases]

\* hashCanvasPixels returning the hash stored for the canvas, if there is one.
hashCanvasPixelsCached(cv, s) ==
  IF ~s.readable THEN null
  ELSE IF Get(lastHash, cv) # null THEN Get(lastHash, cv)
  ELSE Some(FrameHash[content[cv]])

\* hashCanvasPixels(cv): null when drawImage throws.
hashCanvasPixels(cv, s) ==
  IF ~s.readable THEN null ELSE Some(FrameHash[content[cv]])

\* hashCanvasPixels(cv) ends in an exception: getImageData throws.
hashThrows(s) == ~s.readable /\ s.throws

\* cv.toDataURL('image/png') in try/catch: null when it throws.
toDataURL(cv, s) ==
  IF s.encodable THEN Some("data:image/png") ELSE null

\* What captureElementRect resolves to: the cropped screenshot, or null.
FallbackResults == {null, Some("data:image/png")}

\* `canvas_auto/${filename}`
AutoName(filename) ==
  <<"c", "a", "n", "v", "a", "s", "_", "a", "u", "t", "o", "/">> \o filename

\* m.get(cv) || 0
SeqOf(m, cv) == IF Get(m, cv) = null THEN 0 ELSE Val(Get(m, cv))

\* pushFrame without the test of line 449: an entry is pushed whatever the
\* capture gave.
pushFrameUntested(p, t, dataUrl) ==
  LET u == uniquifyName(CanvasName(t.seqNum), p.seenNames)
      entry == [url |-> IF dataUrl = null THEN "" ELSE Val(dataUrl),
                width |-> t.w, height |-> t.h,
                filename |-> u.name, type |-> "canvasWatch",
                cv |-> t.cv, seqNum |-> t.seqNum, trig |-> t.trig,
                stale |-> t.stopped, old |-> t.old]
  IN  [p EXCEPT !.images = Append(@, entry),
                !.seenNames = u.seen,
                !.sink = IF p.autoDownload /\ p.targetTabId # null
                         THEN Append(@, AutoName(u.name)) ELSE @]

\* pushFrame, were a frame numbered by its place among the entries of its
\* canvas.
pushFrameRenumbered(p, t, dataUrl) ==
  IF dataUrl = null THEN p
  ELSE LET n == Len(SelectSeq(p.images, LAMBDA e : e.cv = t.cv /\ ~e.old)) + 1
           u == uniquifyName(CanvasName(n), p.seenNames)
           entry == [url |-> Val(dataUrl), width |-> t.w, height |-> t.h,
                     filename |-> u.name, type |-> "canvasWatch",
                     cv |-> t.cv, seqNum |-> n, trig |-> t.trig,
                     stale |-> t.stopped, old |-> t.old]
       IN  [p EXCEPT !.images = Append(@, entry),
                     !.seenNames = u.seen,
                     !.sink = IF p.autoDownload /\ p.targetTabId # null
                              THEN Append(@, AutoName(u.name)) ELSE @]

\* pushFrame, were the entry sent for download whenever autoDownload is set.
pushFrameSentWithoutTab(p, t, dataUrl) ==
  IF dataUrl = null THEN p
  ELSE LET u == uniquifyName(CanvasName(t.seqNum), p.seenNames)
           entry == [url |-> Val(dataUrl), width |-> t.w, height |-> t.h,
                     filename |-> u.name, type |-> "canvasWatch",
                     cv |-> t.cv, seqNum |-> t.seqNum, trig |-> t.trig,
                     stale |-> t.stopped, old |-> t.old]
       IN  [p EXCEPT !.images = Append(@, entry),
                     !.seenNames = u.seen,
                     !.sink = IF p.autoDownload
                              THEN Append(@, AutoName(u.name)) ELSE @]

\* Lines 449-456, for the tick whose locals are t.  The fields cv, seqNum,
\* trig, stale and old of an entry are history: the canvas, the number and the
\* detection the entry belongs to, whether stop() was called between the
\* detection and the push, and whether a later start() began a new session.
pushFrame(p, t, dataUrl) ==
  IF dataUrl = null THEN p
  ELSE LET u == uniquifyName(CanvasName(t.seqNum), p.seenNames)
           entry == [url |-> Val(dataUrl), width |-> t.w, height |-> t.h,
                     filename |-> u.name, type |-> "canvasWatch",
                     cv |-> t.cv, seqNum |-> t.seqNum, trig |-> t.trig,
                     stale |-> t.stopped, old |-> t.old]
       IN  [p EXCEPT !.images = Append(@, entry),
                     !.seenNames = u.seen,
                     !.sink = IF p.autoDownload /\ p.targetTabId # null
                              THEN Append(@, AutoName(u.name)) ELSE @]

\* firstSample, were the first sample numbered and counted as a frame.
firstSampleCounted(p, cv, newHash) ==
  [p EXCEPT !.lastHash = Set(@, cv, Val(newHash)), !.seq = Set(@, cv, 1)]

\* Lines 431-434: no previous hash.
firstSample(p, cv, newHash) ==
  [p EXCEPT !.lastHash = Set(@, cv, Val(newHash))]

\* belowThreshold, were every sampled hash stored as the new baseline.
belowThresholdRebased(p, cv, newHash) ==
  [p EXCEPT !.lastHash = Set(@, cv, Val(newHash))]

\* dist < threshold: the iteration ends, nothing is written.
belowThreshold(p, cv, newHash) == p

\* changeDetected, were the new hash stored as the baseline only with a
\* frame captured by toDataURL.
changeDetectedStoredOnSuccess(p, idx, s, newHash) ==
  LET cv == Canvases[idx]
      seqNum == SeqOf(p.seq, cv) + 1
      p1 == [p EXCEPT !.seq = Set(@, cv, seqNum), !.trig = @ + 1]
      t == [cv |-> cv, idx |-> idx, seqNum |-> seqNum, w |-> s.w, h |-> s.h,
            trig |-> p1.trig, stopped |-> FALSE, old |-> FALSE]
      dataUrl == toDataURL(cv, s)
  IN  IF dataUrl # null
      THEN pushFrame([p1 EXCEPT !.lastHash = Set(@, cv, Val(newHash))], t, dataUrl)
      ELSE [p1 EXCEPT !.ticks = @ \cup {t}, !.await = TRUE]

\* changeDetected, were the baseline kept at the old hash.
changeDetectedBaselineKept(p, idx, s, newHash) ==
  LET cv == Canvases[idx]
      seqNum == SeqOf(p.seq, cv) + 1
      p1 == [p EXCEPT !.seq = Set(@, cv, seqNum), !.trig = @ + 1]
      t == [cv |-> cv, idx |-> idx, seqNum |-> seqNum, w |-> s.w, h |-> s.h,
            trig |-> p1.trig, stopped |-> FALSE, old |-> FALSE]
      dataUrl == toDataURL(cv, s)
  IN  IF dataUrl # null THEN pushFrame(p1, t, dataUrl)
      ELSE [p1 EXCEPT !.ticks = @ \cup {t}, !.await = TRUE]

\* Lines 437-448: the change is recorded and the frame captured; when
\* toDataURL fails the tick awaits captureElementRect.  t holds the locals of
\* the tick; its fields trig, stopped and old are history: the detection it
\* captures, whether stop() was called while it was suspended, and whether
\* start() began a new session since.
changeDetected(p, idx, s, newHash) ==
  LET cv == Canvases[idx]
      seqNum == SeqOf(p.seq, cv) + 1
      p1 == [p EXCEPT !.lastHash = Set(@, cv, Val(newHash)),
                      !.seq = Set(@, cv, seqNum),
                      !.trig = @ + 1]
      t == [cv |-> cv, idx |-> idx, seqNum |-> seqNum, w |-> s.w, h |-> s.h,
            trig |-> p1.trig, stopped |-> FALSE, old |-> FALSE]
      dataUrl == toDataURL(cv, s)
  IN  IF dataUrl # null THEN pushFrame(p1, t, dataUrl)
      ELSE [p1 EXCEPT !.ticks = @ \cup {t}, !.await = TRUE]

\* What the iteration compared, for the log.
Observed(prevHash, dist, t) ==
  IF prevHash = null THEN "first"
  ELSE IF AtLeast(dist, t) THEN "change"
  ELSE IF dist = 0 THEN "same" ELSE "drift"

\* The iteration, were the stored hash and the counter of a canvas deleted
\* when the canvas has no size or hashCanvasPixels returns null.
tickCanvasClearing(p, idx, s) ==
  LET cv == Canvases[idx]
      cleared == [p EXCEPT !.lastHash = [c \in (DOMAIN @) \ {cv} |-> @[c]],
                           !.seq = [c \in (DOMAIN @) \ {cv} |-> @[c]]]
  IN  IF s.w < 1 \/ s.h < 1 THEN cleared
      ELSE IF hashThrows(s) THEN [p EXCEPT !.threw = TRUE]
      ELSE LET newHash == hashCanvasPixels(cv, s)
           IN  IF newHash = null THEN cleared
               ELSE LET prevHash == Get(p.lastHash, cv)
                        dist == Distance(prevHash, newHash)
                        q == IF prevHash = null THEN firstSample(p, cv, newHash)
                             ELSE IF AtLeast(dist, p.threshold)
                                  THEN changeDetected(p, idx, s, newHash)
                                  ELSE belowThreshold(p, cv, newHash)
                    IN  [q EXCEPT !.obs[cv] = Observed(prevHash, dist, p.threshold)]

\* Lines 425-457: one iteration of the loop, for the canvas at index idx.
tickCanvas(p, idx, s) ==
  LET cv == Canvases[idx]
  IN  IF s.w < 1 \/ s.h < 1 THEN p
      ELSE IF hashThrows(s) THEN [p EXCEPT !.threw = TRUE]
      ELSE LET newHash == hashCanvasPixels(cv, s)
           IN  IF newHash = null THEN p
               ELSE LET prevHash == Get(p.lastHash, cv)
                        dist == Distance(prevHash, newHash)
                        q == IF prevHash = null THEN firstSample(p, cv, newHash)
                             ELSE IF AtLeast(dist, p.threshold)
                                  THEN changeDetected(p, idx, s, newHash)
                                  ELSE belowThreshold(p, cv, newHash)
                    IN  [q EXCEPT !.obs[cv] = Observed(prevHash, dist, p.threshold)]

\* The loop from the canvas at index i on, until it ends, awaits or is left
\* by an exception.
RECURSIVE RunCanvases(_, _, _)
RunCanvases(p, i, in) ==
  IF i > Len(Canvases) THEN p
  ELSE LET q == tickCanvas(p, i, in[Canvases[i]])
       IN  IF q.await \/ q.threw THEN q ELSE RunCanvases(q, i + 1, in)

\* Line 459, reached when the loop ended.  An exception ends the function
\* before it (the promise of tickCanvasWatch is rejected, and nothing
\* handles that).
endOfTick(p) == IF p.await \/ p.threw THEN p ELSE requestTick(p)

\* tickCanvasWatch, were the next callback requested also when the loop is
\* found off.
tickCanvasWatchRearming(p, in) ==
  IF ~p.on THEN requestTick(p) ELSE endOfTick(RunCanvases(p, 1, in))

\* tickCanvasWatch() from its start.
tickCanvasWatch(p, in) ==
  IF ~p.on THEN p ELSE endOfTick(RunCanvases(p, 1, in))

\* tickCanvasWatch() from the await of tick t on, captureElementRect having
\* resolved to dataUrl.
resumeTick(p, t, dataUrl, in) ==
  endOfTick(RunCanvases(pushFrame([p EXCEPT !.ticks = @ \ {t}], t, dataUrl),
                        t.idx + 1, in))

\* The runs of tickCanvasWatch in the current state: the callback with handle
\* h runs and finds in; captureElementRect resolves to dataUrl for the
\* suspended tick t, which goes on and finds in.  A callback that runs while
\* the loop is off looks at no canvas.
PaintInputs == InputsFrom(IF on THEN 1 ELSE Len(Canvases) + 1)
PaintRun(h, in) == tickCanvasWatch([Prog EXCEPT !.rafPending = @ \ {h}], in)
ResolveRun(t, dataUrl, in) == resumeTick(Prog, t, dataUrl, in)

(***************************************************************************)
(* Actions.                                                                *)
(***************************************************************************)
\* History: a new session began.
MarkOld(p) ==
  [p EXCEPT !.images = [i \in 1..Len(@) |-> [@[i] EXCEPT !.old = TRUE]],
            !.ticks = {[t EXCEPT !.old = TRUE] : t \in @}]

\* History: stop() was called.
MarkStopped(p) ==
  [p EXCEPT !.ticks = {[t EXCEPT !.stopped = TRUE] : t \in @}]

\* The message startCanvasWatch.
Start(opts) ==
  \/ /\ on
     /\ Becomes(startCanvasWatch(Prog, opts))
  \/ /\ ~on
     /\ Becomes(MarkOld(startCanvasWatch(Prog, opts)))

\* The message stopCanvasWatch.
Stop ==
  Becomes(MarkStopped(stopCanvasWatch(Prog)))

\* The host paints: the callback with handle h runs.
Paint(h) ==
  /\ h \in rafPending
  /\ \E in \in PaintInputs : Becomes(PaintRun(h, in))

\* captureElementRect resolves for the suspended tick t.
Resolve(t) ==
  /\ t \in ticks
  /\ \E dataUrl \in FallbackResults : \E in \in InputsFrom(t.idx + 1) :
       Becomes(ResolveRun(t, dataUrl, in))

\* The page draws frame k on canvas cv.
Draw(cv, k) ==
  /\ draws < MaxDraws
  /\ k # content[cv]
  /\ content' = [content EXCEPT ![cv] = k]
  /\ draws' = draws + 1
  /\ drift' = {}
  /\ UNCHANGED <<on, rafId, lastHash, seq, threshold, autoDownload, targetTabId,
                 images, seenNames, rafPending, ticks, sink, trig,
                 autoScan, scans, scanned, arg, res>>

Next ==
  \/ \E opts \in PanelOpts : Start(opts)
  \/ Stop
  \/ \E h \in rafPending : Paint(h)
  \/ \E t \in ticks : Resolve(t)
  \/ \E cv \in CanvasSet, k \in Frames : Draw(cv, k)

Spec == Init /\ [][Next]_vars

(***************************************************************************)
(* Scans: scanAll (scanImages, then scanCanvases) and the auto scan.       *)
(***************************************************************************)
\* The images of the page (document.images), each with its absolute URL and
\* the file name `${base}.${ext}` that baseNameFromElement and extensionFrom
\* give it.  The page has no CSS background images.
PageImages ==
  << [url |-> "https://page/a.png", name |-> <<"a", ".", "p", "n", "g">>,
      w |-> 1, h |-> 1] >>

\* An item of a scan.  The fields cv to old are the history fields of the
\* entries of the canvas watch, which no scan item has.
ScanItem(url, w, h, filename, type) ==
  [url |-> url, width |-> w, height |-> h, filename |-> filename, type |-> type,
   cv |-> "", seqNum |-> 0, trig |-> 0, stale |-> FALSE, old |-> FALSE]

\* Lines 279-293 from image i on: out and the issued names at the end.
RECURSIVE scanImagesFrom(_, _, _)
scanImagesFrom(i, out, seen) ==
  IF i > Len(PageImages) THEN [out |-> out, seen |-> seen]
  ELSE LET img == PageImages[i]
           u == uniquifyName(img.name, seen)
       IN  scanImagesFrom(i + 1,
                          Append(out, ScanItem(img.url, img.w, img.h, u.name, "img")),
                          u.seen)

\* Lines 316-323: the items of out, without those whose URL came before.
DedupByUrl(out) ==
  LET first(i) == \A j \in 1..(i - 1) : out[j].url # out[i].url
      F[i \in 0..Len(out)] ==
        IF i = 0 THEN <<>>
        ELSE IF first(i) THEN Append(F[i - 1], out[i]) ELSE F[i - 1]
  IN  F[Len(out)]

\* scanImages(opts) with the options of the panel ({}: no size limits): the
\* items returned and the issued names.
scanImages(seen) ==
  LET r == scanImagesFrom(1, <<>>, seen)
  IN  [items |-> DedupByUrl(r.out), seen |-> r.seen]

\* `canvas_${count}.png`
ScanCanvasName(count) == CanvasName(count)

\* Lines 353-358 of scanCanvases, for the scan whose locals are s.
pushItem(p, s, dataUrl) ==
  IF dataUrl = null THEN [p |-> p, s |-> s]
  ELSE LET u == uniquifyName(ScanCanvasName(s.count), p.seenNames)
       IN  [p |-> [p EXCEPT !.seenNames = u.seen],
            s |-> [s EXCEPT !.items = Append(@, ScanItem(Val(dataUrl), s.w, s.h,
                                                         u.name, "canvas")),
                            !.count = @ + 1]]

\* The loop of scanCanvases (lines 341-360) from the canvas at index i on,
\* until it ends (await FALSE) or awaits captureElementRect (await TRUE).
RECURSIVE scanCanvasesFrom(_, _, _, _)
scanCanvasesFrom(p, s, i, in) ==
  IF i > Len(Canvases) THEN [p |-> p, s |-> s, await |-> FALSE]
  ELSE LET smp == in[Canvases[i]]
           here == [s EXCEPT !.idx = i, !.w = smp.w, !.h = smp.h]
           dataUrl == toDataURL(Canvases[i], smp)
       IN  IF smp.w < 1 \/ smp.h < 1 THEN scanCanvasesFrom(p, s, i + 1, in)
           ELSE IF dataUrl = null THEN [p |-> p, s |-> here, await |-> TRUE]
           ELSE LET r == pushItem(p, here, dataUrl)
                IN  scanCanvasesFrom(r.p, r.s, i + 1, in)

\* What follows the loop in scanAll: the scan is suspended, or lines 376-377
\* store the result in STATE.images.
afterCanvases(r) ==
  IF r.await THEN [r.p EXCEPT !.scans = @ \cup {r.s}]
  ELSE [r.p EXCEPT !.images = r.s.imgs \o r.s.items]

\* The locals of a scanAll call that begins and of the scanCanvases call in
\* it; nth tells the scans apart.
NewScan(imgs, nth) ==
  [imgs |-> imgs, items |-> <<>>, count |-> 1,
   idx |-> 0, w |-> 0, h |-> 0, nth |-> nth]

\* scanAll(opts) (lines 373-380), to its first await or its end.
scanAll(p, in) ==
  LET r == scanImages(p.seenNames)
      q == [p EXCEPT !.seenNames = r.seen, !.scanned = @ + 1]
  IN  afterCanvases(scanCanvasesFrom(q, NewScan(r.items, q.scanned), 1, in))

\* scanCanvases from the await of scan s on, captureElementRect having
\* resolved to dataUrl.
resumeScan(p, s, dataUrl, in) ==
  LET r == pushItem([p EXCEPT !.scans = @ \ {s}], s, dataUrl)
  IN  afterCanvases(scanCanvasesFrom(r.p, r.s, s.idx + 1, in))

\* startAutoScan(opts) (lines 386-407): the handler it installs runs at once,
\* and lastRun = 0 lets that run pass the throttle.
startAutoScan(p, in) ==
  IF p.autoScan THEN p ELSE scanAll([p EXCEPT !.autoScan = TRUE], in)

\* stopAutoScan() (lines 409-415).
stopAutoScan(p) ==
  IF ~p.autoScan THEN p ELSE [p EXCEPT !.autoScan = FALSE]

\* The handler of scroll and resize (lines 391-401); tooSoon tells whether
\* the last run was less than 600 ms ago.
autoScanHandler(p, tooSoon, in) ==
  IF tooSoon THEN p ELSE scanAll(p, in)

\* What the iterations of a scan for the canvases at the indices i, i + 1,
\* ... find (a scan reads no pixels).
ScanInputsFrom(i) ==
  [{Canvases[j] : j \in i..Len(Canvases)} -> {c \in SampleCases : c.readable}]

\* The message scanAll, which the panel sends with the options {}.
ScanAllMsg ==
  /\ scanned < MaxScans
  /\ \E in \in ScanInputsFrom(1) : Becomes(scanAll(Prog, in))

\* The message startAutoScan.
StartAutoScan ==
  \/ /\ autoScan
     /\ \E in \in ScanInputsFrom(Len(Canvases) + 1) : Becomes(startAutoScan(Prog, in))
  \/ /\ ~autoScan
     /\ scanned < MaxScans
     /\ \E in \in ScanInputsFrom(1) : Becomes(startAutoScan(Prog, in))

\* The message stopAutoScan.
StopAutoScan ==
  Becomes(stopAutoScan(Prog))

\* The page scrolls or is resized while the auto scan is enabled.
Scroll ==
  /\ autoScan
  /\ scanned < MaxScans
  /\ \E tooSoon \in BOOLEAN : \E in \in ScanInputsFrom(1) :
       Becomes(autoScanHandler(Prog, tooSoon, in))

\* captureElementRect resolves for the suspended scan s.
ScanResolve(s) ==
  /\ s \in scans
  /\ \E dataUrl \in FallbackResults : \E in \in ScanInputsFrom(s.idx + 1) :
       Becomes(resumeScan(Prog, s, dataUrl, in))

\* The canvas watch and the scans together.
NextScan ==
  \/ \E opts \in PanelOpts : Start(opts)
  \/ Stop
  \/ \E h \in rafPending : Paint(h)
  \/ \E t \in ticks : Resolve(t)
  \/ \E cv \in CanvasSet, k \in Frames : draws < ScanDraws /\ Draw(cv, k)
  \/ ScanAllMsg
  \/ StartAutoScan
  \/ StopAutoScan
  \/ Scroll
  \/ \E s \in scans : ScanResolve(s)

SpecScan == Init /\ [][NextScan]_vars

(***************************************************************************)
(* Properties of a tick.                                                   *)
(***************************************************************************)
\* The entries of canvas cv in the catalog imgs, the suspended captures of cv
\* among ts.
EntriesOf(imgs, cv) == SelectSeq(imgs, LAMBDA e : e.cv = cv)
PendingOf(ts, cv) == {t \in ts : t.cv = cv}

\* The entries a run appended to reach the catalog imgs.
Appended(imgs) == SubSeq(imgs, Len(images) + 1, Len(imgs))

\* The states the runs of tickCanvasWatch possible in the current state end
\* in: the runs that begin with captureElementRect resolving to d for the
\* suspended tick t, and all runs.
ResolveRuns(t, d) == {ResolveRun(t, d, in) : in \in InputsFrom(t.idx + 1)}
TickRuns ==
  UNION ({{PaintRun(h, in) : in \in PaintInputs} : h \in rafPending}
         \cup {ResolveRuns(t, d) : t \in ticks, d \in FallbackResults})

\* C1: a tick that hashes a canvas with no stored hash stores the hash as the
\* baseline and does nothing else for the canvas: the sequence counter stays
\* at 0, no capture is started and no entry is appended.
FirstSampleOnlyStoresBaseline ==
  \A q \in TickRuns : \A cv \in CanvasSet :
    q.obs[cv] = "first" =>
      /\ Get(lastHash, cv) = null
      /\ Get(q.lastHash, cv) = Some(FrameHash[content[cv]])
      /\ SeqOf(q.seq, cv) = 0
      /\ EntriesOf(q.images, cv) = EntriesOf(images, cv)
      /\ PendingOf(q.ticks, cv) = PendingOf(ticks, cv)

\* The loop stored the baseline of a canvas the page had drawn on, and
\* captured nothing.
FirstSampleStored ==
  /\ on
  /\ images = <<>> /\ ticks = {} /\ trig = 0
  /\ \E cv \in CanvasSet :
       /\ content[cv] = 2
       /\ Get(lastHash, cv) = Some(FrameHash[2])
       /\ SeqOf(seq, cv) = 0

\* C2: a tick that finds a canvas at a distance below the threshold starts no
\* capture and leaves the baseline, the sequence counter and the catalog as
\* they are, so the baseline stays the hash of the last trigger or first
\* sample.
BelowThresholdChangesNothing ==
  \A q \in TickRuns : \A cv \in CanvasSet :
    q.obs[cv] \in {"same", "drift"} =>
      /\ Get(q.lastHash, cv) = Get(lastHash, cv)
      /\ SeqOf(q.seq, cv) = SeqOf(seq, cv)
      /\ EntriesOf(q.images, cv) = EntriesOf(images, cv)
      /\ PendingOf(q.ticks, cv) = PendingOf(ticks, cv)

\* A tick has just sampled a canvas whose content differs from the baseline by
\* less than the threshold, and the baseline is still the older hash.
DriftedBelowThreshold ==
  \E cv \in drift :
    /\ Get(lastHash, cv) # Some(FrameHash[content[cv]])
    /\ SeqOf(seq, cv) = 0
    /\ EntriesOf(images, cv) = <<>>

\* C3: a tick that finds a canvas at a distance at or above the threshold
\* replaces the baseline by the new hash, adds exactly 1 to the sequence
\* counter and captures the canvas: a capture that succeeds, at once or when
\* captureElementRect resolves, appends exactly one entry, numbered by the
\* counter.
ChangeTriggersCapture ==
  /\ \A q \in TickRuns : \A cv \in CanvasSet :
       q.obs[cv] = "change" =>
         LET new == EntriesOf(Appended(q.images), cv)
             started == PendingOf(q.ticks, cv) \ PendingOf(ticks, cv)
         IN  /\ Get(q.lastHash, cv) = Some(FrameHash[content[cv]])
             /\ SeqOf(q.seq, cv) = SeqOf(seq, cv) + 1
             /\ \/ /\ Len(new) = 1
                   /\ new[1].seqNum = SeqOf(q.seq, cv)
                   /\ started = {}
                \/ /\ new = <<>>
                   /\ Cardinality(started) = 1
                   /\ \A t \in started : t.seqNum = SeqOf(q.seq, cv)
  /\ \A t \in ticks : \A d \in FallbackResults : \A q \in ResolveRuns(t, d) :
       LET new == EntriesOf(Appended(q.images), t.cv)
       IN  /\ t \notin q.ticks
           /\ IF d = null THEN new = <<>>
              ELSE Len(new) = 1 /\ new[1].seqNum = t.seqNum

\* The first change of a canvas was detected and captured: the counter is 1,
\* the baseline is the new hash, the catalog has the one entry.
FirstTriggerCaptured ==
  \E cv \in CanvasSet :
    /\ content[cv] = 2
    /\ Get(lastHash, cv) = Some(FrameHash[2])
    /\ SeqOf(seq, cv) = 1
    /\ PendingOf(ticks, cv) = {}
    /\ Len(EntriesOf(images, cv)) = 1
    /\ EntriesOf(images, cv)[1].seqNum = 1

(***************************************************************************)
(* Properties of start() and stop().                                       *)
(***************************************************************************)
\* C4: the result of a capture that was pending when stop() was called is
\* discarded: no entry of the catalog comes from such a capture.
StaleCaptureDiscarded ==
  \A i \in 1..Len(images) : ~images[i].stale

\* C5: while the loop is stopped no tick is scheduled.
StoppedMeansNoTick ==
  ~on => rafPending = {}

\* C6: stop() on a stopped loop changes nothing, and stop() twice leaves the
\* state stop() once leaves.
StopIdempotent ==
  /\ ~on => stopCanvasWatch(Prog) = Prog
  /\ stopCanvasWatch(stopCanvasWatch(Prog)) = stopCanvasWatch(Prog)

\* The loop was stopped, and a tick that was suspended then has since set
\* rafId again: the state in which a second stop() would have a handle to
\* cancel.
StoppedWithHandle ==
  ~on /\ rafId # 0 /\ rafId \in rafPending

\* C7: at most one capture of a canvas is in flight.
OneCaptureInFlight ==
  \A t1, t2 \in ticks : t1.cv = t2.cv => t1 = t2

(***************************************************************************)
(* Properties of the catalog.                                              *)
(***************************************************************************)
\* The entries of canvas cv captured for changes detected in the current
\* session.
SessionEntries(cv) == SelectSeq(images, LAMBDA e : e.cv = cv /\ ~e.old)

\* C8, as the claim states it: the entries of a canvas carry the numbers
\* 1, 2, 3, ... in catalog order.
NumberedWithoutGap ==
  \A cv \in CanvasSet :
    \A i \in 1..Len(SessionEntries(cv)) : SessionEntries(cv)[i].seqNum = i

\* C8: the counter of a canvas is 0 after start(), changes only by a tick
\* adding exactly 1 when it detects a change, before and whether or not the
\* capture succeeds, and an entry carries the counter value of its detection;
\* so the entries and pending captures of a canvas in a session carry
\* distinct numbers from 1 to the counter.
CounterCountsDetections ==
  /\ \A q \in TickRuns : \A cv \in CanvasSet :
       SeqOf(q.seq, cv) = SeqOf(seq, cv) + (IF q.obs[cv] = "change" THEN 1 ELSE 0)
  /\ \A opts \in PanelOpts : \A cv \in CanvasSet :
       SeqOf(startCanvasWatch(Prog, opts).seq, cv) = IF on THEN SeqOf(seq, cv) ELSE 0
  /\ stopCanvasWatch(Prog).seq = seq
  /\ \A t \in ticks : \A d \in FallbackResults : \A q \in ResolveRuns(t, d) :
       d # null =>
         LET e == q.images[Len(images) + 1]
         IN  /\ e.cv = t.cv
             /\ e.seqNum = t.seqNum
             /\ e.filename = uniquifyName(CanvasName(t.seqNum), seenNames).name
  /\ \A cv \in CanvasSet :
       LET es == SessionEntries(cv)
           ts == {t \in PendingOf(ticks, cv) : ~t.old}
       IN  /\ \A i \in 1..Len(es) : es[i].seqNum \in 1..SeqOf(seq, cv)
           /\ \A i, j \in 1..Len(es) : es[i].seqNum = es[j].seqNum => i = j
           /\ \A t \in ts : t.seqNum \in 1..SeqOf(seq, cv)
           /\ \A t \in ts : \A i \in 1..Len(es) : es[i].seqNum # t.seqNum
           /\ \A t1, t2 \in ts : t1.seqNum = t2.seqNum => t1 = t2

\* The first capture of a canvas failed and the second succeeded: the counter
\* is 2 and the only entry of the canvas carries the number 2.
GapAfterFailedCapture ==
  \E cv \in CanvasSet :
    /\ SeqOf(seq, cv) = 2
    /\ PendingOf(ticks, cv) = {}
    /\ Len(SessionEntries(cv)) = 1
    /\ SessionEntries(cv)[1].seqNum = 2
    /\ SessionEntries(cv)[1].filename = CanvasName(2)

\* C9: the entries are in the catalog in the order their changes were
\* detected.
CatalogInTriggerOrder ==
  \A i, j \in 1..Len(images) : i < j => images[i].trig < images[j].trig

CatalogAppendOnly ==
  [][on =>
       /\ Len(images') >= Len(images)
       /\ SubSeq(images', 1, Len(images)) = images
       /\ \A i \in (Len(images) + 1)..Len(images') : images'[i].type = "canvasWatch"
    ]_vars

(***************************************************************************)
(* uniquifyName on its own: arg is the list of the names proposed so far,  *)
(* res the list of the names returned.                                     *)
(***************************************************************************)
\* File names `${base}.${ext}` that the scans and the canvas watch propose:
\* a.png, a-2.png, a-3.png and a.b.png.
Names ==
  { <<"a", ".", "p", "n", "g">>,
    <<"a", "-", "2", ".", "p", "n", "g">>,
    <<"a", "-", "3", ".", "p", "n", "g">>,
    <<"a", ".", "b", ".", "p", "n", "g">> }

InitNamer ==
  /\ Loaded
  /\ arg = <<>>
  /\ res = <<>>

\* One call uniquifyName(name).
Assign(name) ==
  /\ Len(arg) < MaxCalls
  /\ LET u == uniquifyName(name, seenNames)
     IN  /\ seenNames' = u.seen
         /\ arg' = Append(arg, name)
         /\ res' = Append(res, u.name)
  /\ UNCHANGED <<on, rafId, lastHash, seq, threshold, autoDownload, targetTabId,
                 images, rafPending, ticks, sink, content, draws, trig, drift,
                 autoScan, scans, scanned>>

NextNamer == \E name \in Names : Assign(name)

SpecNamer == InitNamer /\ [][NextNamer]_vars

\* C12: the names that uniquifyName returned are pairwise distinct and all in
\* the set of issued names, and no step takes a name out of that set.
IssuedNamesDistinct ==
  /\ [](/\ \A i, j \in 1..Len(res) : i # j => res[i] # res[j]
        /\ \A i \in 1..Len(res) : res[i] \in seenNames)
  /\ [][seenNames \subseteq seenNames']_vars

\* A name proposed twice, and so renamed.
SameNameProposedTwice ==
  \E i, j \in 1..Len(arg) : i < j /\ arg[i] = arg[j] /\ res[j] # arg[j]

\* The names issued before call i, and the parts of a name before and from
\* its last dot.
IssuedBefore(i) == {res[j] : j \in 1..(i - 1)}
Stem(name) ==
  IF \A i \in 1..Len(name) : name[i] # "." THEN name
  ELSE LET d == CHOOSE i \in 1..Len(name) :
                  name[i] = "." /\ \A j \in (i + 1)..Len(name) : name[j] # "."
       IN  SubSeq(name, 1, d - 1)
Ext(name) == SubSeq(name, Len(Stem(name)) + 1, Len(name))
Suffixed(name, k) == Stem(name) \o <<"-">> \o Decimal(k) \o Ext(name)

\* C13: a call returns the proposed name as it is when the name was not
\* issued before, and otherwise stem-k ext for the least k >= 2 whose
\* stem-k ext was not issued before, stem and ext being the parts of the name
\* before and from its last dot.
AssignReturnsFirstUnusedName ==
  \A i \in 1..Len(res) :
    IF arg[i] \notin IssuedBefore(i) THEN res[i] = arg[i]
    ELSE \E k \in 2..(i + 1) :
           /\ res[i] = Suffixed(arg[i], k)
           /\ Suffixed(arg[i], k) \notin IssuedBefore(i)
           /\ \A m \in 2..(k - 1) : Suffixed(arg[i], m) \in IssuedBefore(i)

\* a.png proposed three times: a.png, a-2.png and a-3.png are returned.
ThreeTimesAPng ==
  /\ arg = [i \in 1..3 |-> <<"a", ".", "p", "n", "g">>]
  /\ res = << <<"a", ".", "p", "n", "g">>,
              <<"a", "-", "2", ".", "p", "n", "g">>,
              <<"a", "-", "3", ".", "p", "n", "g">> >>

(***************************************************************************)
(* hammingDistance on its own: arg is the pair of arrays it is applied     *)
(* to, res what it returned and what lines 435-436 make of that.           *)
(***************************************************************************)
\* The largest element of a Uint8Array.
MaxByte == 255

\* Bytes with no, one, alternate and all bits set.
SampleBytes == {0, 1, 85, 170, 255}

\* The arrays of at most n of these bytes.
SampleArrays(n) == UNION {[1..k -> SampleBytes] : k \in 0..n}

\* hammingDistance is applied to every two arrays of one byte, and to every
\* two arrays of sample bytes, of equal and of unequal lengths.
InitDistance ==
  /\ Loaded
  /\ \/ \E x, y \in 0..MaxByte : arg = [a |-> <<x>>, b |-> <<y>>]
     \/ \E a, b \in SampleArrays(MaxLen) : arg = [a |-> a, b |-> b]
  /\ res = null

\* const dist = hammingDistance(prevHash, newHash) with prevHash = arg.a and
\* newHash = arg.b, and the comparison of dist with the threshold.
Measure ==
  /\ res = null
  /\ LET dist == hammingDistance(Some(arg.a), Some(arg.b))
     IN  res' = Some([dist |-> dist,
                      obs |-> Observed(Some(arg.a), dist, threshold)])
  /\ UNCHANGED <<on, rafId, lastHash, seq, threshold, autoDownload, targetTabId,
                 images, seenNames, rafPending, ticks, sink, content, draws,
                 trig, drift, autoScan, scans, scanned, arg>>

NextDistance == Measure

SpecDistance == InitDistance /\ [][NextDistance]_vars

\* hammingDistance has returned, for arrays of equal length.
MeasuredEqualLength == res # null /\ Len(arg.a) = Len(arg.b)

\* C14: for arrays a and b of equal length, hammingDistance(a, b) is
\* hammingDistance(b, a).
DistanceSymmetric ==
  MeasuredEqualLength =>
    Val(res).dist = hammingDistance(Some(arg.b), Some(arg.a))

\* Two different arrays of two bytes were compared.
DifferentArraysMeasured ==
  MeasuredEqualLength /\ Len(arg.a) = 2 /\ arg.a # arg.b /\ Val(res).dist > 0

\* C15: for arrays a and b of equal length, hammingDistance(a, b) is 0 if and
\* only if a and b are the same array of bytes; so hammingDistance(a, a) is 0.
DistanceZeroIffIdentical ==
  MeasuredEqualLength => (Val(res).dist = 0 <=> arg.a = arg.b)

\* An array of two bytes was compared with itself.
SameArrayMeasured ==
  MeasuredEqualLength /\ Len(arg.a) = 2 /\ arg.a = arg.b /\ Val(res).dist = 0

BitOf(x, k) == (x \div Pow2(k)) % 2
DifferingBits(a, b) ==
  Cardinality({ik \in (1..Len(a)) \X (0..7) :
                 BitOf(a[ik[1]], ik[2]) # BitOf(b[ik[1]], ik[2])})

\* C17: for arrays a and b of equal length with bytes in 0..255,
\* hammingDistance(a, b) is the number of bit positions in which a and b
\* differ.
DistanceIsPopcount ==
  MeasuredEqualLength => Val(res).dist = DifferingBits(arg.a, arg.b)

\* The bytes 255 and 0 were compared: all 8 bits differ.
AllBitsDiffer ==
  res # null /\ arg.a = <<MaxByte>> /\ arg.b = <<0>> /\ Val(res).dist = 8

(***************************************************************************)
(* The bits of hashCanvasPixels on their own: arg is the luminance of the  *)
(* cells (gray), res the array returned.                                   *)
(***************************************************************************)
\* Luminances: black, nearly black and white.
SampleGrays == {0, 1, 255}

\* The sizes of the grids with at most MaxCells cells.
GridSizes == {size \in 1..MaxCells : size * size <= MaxCells}

\* The grids of size * size cells: every grid of sample luminances with at
\* most MaxCells cells, and the frames the canvases show, of hashSize *
\* hashSize cells.
InitHasher ==
  /\ Loaded
  /\ \/ \E size \in GridSizes : arg \in [1..(size * size) -> SampleGrays]
     \/ \E k \in Frames : arg = FrameGray(k)
  /\ res = null

\* Lines 176-181 for the luminances arg.
Hash ==
  /\ res = null
  /\ res' = Some(hashBits(arg))
  /\ UNCHANGED <<on, rafId, lastHash, seq, threshold, autoDownload, targetTabId,
                 images, seenNames, rafPending, ticks, sink, content, draws,
                 trig, drift, autoScan, scans, scanned, arg>>

NextHasher == Hash

SpecHasher == InitHasher /\ [][NextHasher]_vars

\* C18: bit k of the array returned (bit k % 8 of byte k \div 8) is 1 if and
\* only if the luminance of cell k is above the exact mean of all cells, that
\* is, cell k times the number of cells is above the sum of the cells; the
\* array has no other bit set, and a grid of equal cells gives all zeros.
BitsAboveExactMean ==
  res # null =>
    LET n == Len(arg)
        bits == Val(res)
        sum == SumRange(arg, 1, n)
    IN  /\ Len(bits) = (n + 7) \div 8
        /\ \A k \in 0..(8 * Len(bits) - 1) :
             BitOf(bits[(k \div 8) + 1], k % 8) = 1
               <=> (k < n /\ arg[k + 1] * n > sum)
        /\ (\A i, j \in 1..n : arg[i] = arg[j]) => \A m \in 1..Len(bits) : bits[m] = 0

\* A grid whose mean 3/4 is not an integer was hashed: the cells above it
\* are the cells above 0.
FractionalMeanHashed ==
  res # null /\ arg = <<0, 1, 1, 1>> /\ Val(res) = <<14>>

Max(a, b) == IF a >= b THEN a ELSE b

\* Math.round(q / 4): the nearest integer, a half rounded up.
RoundQuarters(q) == (q + 2) \div 4

\* Lines 238-242 with sx and sy as they leave Math.round.
cropRectUnclamped(rect, devicePixelRatio) ==
  LET dpr == IF devicePixelRatio = 0 THEN 2 ELSE devicePixelRatio
  IN  [sx |-> RoundQuarters(rect.x * dpr),
       sy |-> RoundQuarters(rect.y * dpr),
       sw |-> Max(1, RoundQuarters(rect.width * dpr)),
       sh |-> Max(1, RoundQuarters(rect.height * dpr))]

\* Lines 238-242: dpr is devicePixelRatio || 1.
cropRect(rect, devicePixelRatio) ==
  LET dpr == IF devicePixelRatio = 0 THEN 2 ELSE devicePixelRatio
  IN  [sx |-> Max(0, RoundQuarters(rect.x * dpr)),
       sy |-> Max(0, RoundQuarters(rect.y * dpr)),
       sw |-> Max(1, RoundQuarters(rect.width * dpr)),
       sh |-> Max(1, RoundQuarters(rect.height * dpr))]

\* Bounding rectangles (getBoundingClientRect), in halves of a pixel: left
\* of, above and inside the viewport, empty and not, with whole and with
\* half pixels; among them (10, 20, 100, 50).
SampleRects ==
  [x : {-3, -2, 0, 1, 20}, y : {-4, -1, 0, 40},
   width : {0, 1, 2, 200}, height : {0, 1, 4, 100}]

\* window.devicePixelRatio, in halves: 1, 1.5, 2 and 3.
SampleRatios == {2, 3, 4, 6}

InitCrop ==
  /\ Loaded
  /\ arg \in [rect : SampleRects, devicePixelRatio : SampleRatios]
  /\ res = null

\* captureElementRect computes the rectangle it crops the screenshot to.
Crop ==
  /\ res = null
  /\ res' = Some(cropRect(arg.rect, arg.devicePixelRatio))
  /\ UNCHANGED <<on, rafId, lastHash, seq, threshold, autoDownload, targetTabId,
                 images, seenNames, rafPending, ticks, sink, content, draws,
                 trig, drift, autoScan, scans, scanned, arg>>

NextCrop == Crop

SpecCrop == InitCrop /\ [][NextCrop]_vars

\* The rectangle and the ratio are whole numbers of pixels.
WholePixels ==
  /\ arg.rect.x % 2 = 0 /\ arg.rect.y % 2 = 0
  /\ arg.rect.width % 2 = 0 /\ arg.rect.height % 2 = 0
  /\ arg.devicePixelRatio % 2 = 0

\* C20: for a bounding rectangle (x, y, w, h) of whole pixels and a whole
\* ratio s, the crop rectangle is (max(0, x*s), max(0, y*s), max(1, w*s),
\* max(1, h*s)).
CropIsScaledAndClamped ==
  (res # null /\ WholePixels) =>
    LET x == arg.rect.x \div 2
        y == arg.rect.y \div 2
        w == arg.rect.width \div 2
        h == arg.rect.height \div 2
        s == arg.devicePixelRatio \div 2
    IN  Val(res) = [sx |-> IF x * s > 0 THEN x * s ELSE 0,
                    sy |-> IF y * s > 0 THEN y * s ELSE 0,
                    sw |-> IF w * s > 1 THEN w * s ELSE 1,
                    sh |-> IF h * s > 1 THEN h * s ELSE 1]

\* The rectangle (10, 20, 100, 50) at the ratio 2 gave (20, 40, 200, 100).
ExampleCropped ==
  /\ arg = [rect |-> [x |-> 20, y |-> 40, width |-> 200, height |-> 100],
            devicePixelRatio |-> 4]
  /\ res = Some([sx |-> 20, sy |-> 40, sw |-> 200, sh |-> 100])

(***************************************************************************)
(* The two ways of capturing a frame.                                      *)
(***************************************************************************)
\* What a call of captureElementRect meets: whether the background answers
\* the message captureVisible at all, what chrome.tabs gives it (a screenshot,
\* no URL, an exception), whether img.decode() succeeds and whether the
\* cropped canvas can be encoded.
CaptureCases ==
  [provider : {"image", "none", "error", "unreachable"},
   decodes : BOOLEAN, encodes : BOOLEAN]

\* captureVisible, were line 72 `return { ok: true, dataUrl }`.
captureVisibleAlwaysOk(tabId, c) ==
  IF tabId = null \/ Val(tabId) = 0 THEN [ok |-> FALSE, dataUrl |-> null]
  ELSE IF c.provider = "image"
       THEN [ok |-> TRUE, dataUrl |-> Some("data:image/png;screenshot")]
       ELSE IF c.provider = "none" THEN [ok |-> TRUE, dataUrl |-> null]
       ELSE [ok |-> FALSE, dataUrl |-> null]

\* captureVisible(tabId) of the background (lines 53-77), in the case c.
\* `!tabId` holds of a missing id and of 0.
captureVisible(tabId, c) ==
  IF tabId = null \/ Val(tabId) = 0 THEN [ok |-> FALSE, dataUrl |-> null]
  ELSE IF c.provider = "image"
       THEN [ok |-> TRUE, dataUrl |-> Some("data:image/png;screenshot")]
       ELSE [ok |-> FALSE, dataUrl |-> null]

\* captureElementRect(el, tabId) in the try/catch of lines 445-447, sent from
\* the tab senderTab in the case c: null when sendMessage rejects, when the
\* response has no image, when the image does not decode and when the crop
\* cannot be encoded.  The background captures msg.tabId ?? sender.tab.id.
captureElementRect(tabId, senderTab, c) ==
  IF c.provider = "unreachable" THEN null
  ELSE LET resp == captureVisible(IF tabId # null THEN tabId ELSE Some(senderTab), c)
       IN  IF ~resp.ok \/ resp.dataUrl = null THEN null
           ELSE IF ~c.decodes THEN null
           ELSE IF ~c.encodes THEN null
           ELSE Some("data:image/png")

\* C21: captureElementRect is awaited only for a detected change whose
\* toDataURL failed; a detection appends its one entry if toDataURL gave an
\* image, and otherwise when captureElementRect resolves with one; when the
\* background supplies no image or the image does not decode,
\* captureElementRect gives null and the resumed tick appends nothing.
CaptureIsTwoTier ==
  /\ \A h \in rafPending : \A in \in PaintInputs : \A cv \in CanvasSet :
       LET q == PaintRun(h, in)
           new == EntriesOf(Appended(q.images), cv)
           started == PendingOf(q.ticks, cv) \ PendingOf(ticks, cv)
       IN  IF q.obs[cv] = "change" /\ ~in[cv].encodable
           THEN Cardinality(started) = 1 /\ new = <<>>
           ELSE /\ started = {}
                /\ Len(new) = IF q.obs[cv] = "change" THEN 1 ELSE 0
  /\ \A t \in ticks : \A d \in FallbackResults : \A in \in InputsFrom(t.idx + 1) :
       LET q == ResolveRun(t, d, in)
       IN  /\ PendingOf(q.ticks, t.cv) = PendingOf(ticks, t.cv) \ {t}
           /\ Len(EntriesOf(Appended(q.images), t.cv)) = IF d = null THEN 0 ELSE 1
           /\ \A cv \in CanvasSet \ {t.cv} :
                LET new == EntriesOf(Appended(q.images), cv)
                    started == PendingOf(q.ticks, cv) \ PendingOf(ticks, cv)
                IN  IF q.obs[cv] = "change" /\ ~in[cv].encodable
                    THEN Cardinality(started) = 1 /\ new = <<>>
                    ELSE /\ started = {}
                         /\ Len(new) = IF q.obs[cv] = "change" THEN 1 ELSE 0
  /\ \A tabId \in {null, Some(1)} : \A c \in CaptureCases :
       /\ captureElementRect(tabId, 1, c) \in FallbackResults
       /\ captureElementRect(tabId, 1, c) # null
            <=> (c.provider = "image" /\ c.decodes /\ c.encodes)

\* A capture by captureElementRect failed: the change was detected and
\* counted, no capture is pending and the catalog has no entry of the canvas.
FallbackCaptureFailed ==
  \E cv \in CanvasSet :
    /\ on
    /\ SeqOf(seq, cv) = 1
    /\ PendingOf(ticks, cv) = {}
    /\ EntriesOf(images, cv) = <<>>

(***************************************************************************)
(* Failures within a tick.                                                 *)
(***************************************************************************)
\* What the run that ended in q did for canvas c: the stored hash and the
\* counter of c, what the run observed of c, the numbers of the entries of c
\* it appended and of the captures of c it left pending.
OutcomeFor(q, c) ==
  [hash |-> Get(q.lastHash, c),
   seq |-> Get(q.seq, c),
   obs |-> q.obs[c],
   new |-> LET e == EntriesOf(Appended(q.images), c)
           IN  [i \in 1..Len(e) |-> e[i].seqNum],
   pending |-> {u.seqNum : u \in PendingOf(q.ticks, c) \ ticks}]

\* The run that ended in q reached the canvas at index j: it did not stop in
\* an await at an earlier canvas.
Reached(q, j) == \A u \in q.ticks \ ticks : u.idx >= j

\* C22: what a run of the tick does for a canvas it reaches is what
\* processing that canvas alone would do, whatever happened to the other
\* canvases in the run: a canvas that could not be read or whose capture
\* failed changes nothing for the others.
FailuresIsolated ==
  /\ on =>
       \A h \in rafPending : \A in \in PaintInputs : \A j \in 1..Len(Canvases) :
         LET q == PaintRun(h, in)
             c == Canvases[j]
         IN  Reached(q, j) =>
               OutcomeFor(q, c) = OutcomeFor(tickCanvas(Prog, j, in[c]), c)
  /\ \A t \in ticks : \A d \in FallbackResults : \A in \in InputsFrom(t.idx + 1) :
       \A j \in (t.idx + 1)..Len(Canvases) :
         LET q == ResolveRun(t, d, in)
             c == Canvases[j]
         IN  Reached(q, j) =>
               OutcomeFor(q, c) = OutcomeFor(tickCanvas(Prog, j, in[c]), c)

\* The first canvas was not hashed in the ticks so far, the second was.
OtherCanvasHashed ==
  /\ on
  /\ Get(lastHash, Canvases[1]) = null
  /\ Get(lastHash, Canvases[2]) # null

(***************************************************************************)
(* The loop under a host that keeps painting and captures that resolve.    *)
(***************************************************************************)
\* Every requested animation frame is delivered and every awaited
\* captureElementRect resolves.
SpecLive ==
  /\ Init
  /\ [][Next]_vars
  /\ WF_vars(\E h \in rafPending : Paint(h))
  /\ WF_vars(\E t \in ticks : Resolve(t))

\* C23: while the loop is on and stop() is not called, a tick is always
\* followed by another: whenever the loop is on, eventually a callback of
\* tickCanvasWatch is requested again, or the loop was stopped.
TickFollowedByTick ==
  [](on => <>(~on \/ rafPending # {}))

(***************************************************************************)
(* After a failed capture.                                                 *)
(***************************************************************************)
\* The last change detected for canvas cv in this session was not captured:
\* the counter of cv is above 0, no capture of cv is pending and the catalog
\* has no entry of this session with that number.
CaptureFailedFor(cv) ==
  /\ SeqOf(seq, cv) >= 1
  /\ PendingOf(ticks, cv) = {}
  /\ \A i \in 1..Len(images) :
       ~(images[i].cv = cv /\ ~images[i].old /\ images[i].seqNum = SeqOf(seq, cv))

\* The stored hash of cv is the hash of what cv shows.
BaselineIsContent(cv) == Get(lastHash, cv) = Some(FrameHash[content[cv]])

\* The run that ended in q did nothing for canvas cv.
NothingDoneFor(q, cv) ==
  /\ Get(q.lastHash, cv) = Get(lastHash, cv)
  /\ Get(q.seq, cv) = Get(seq, cv)
  /\ PendingOf(q.ticks, cv) \ PendingOf(ticks, cv) = {}
  /\ EntriesOf(Appended(q.images), cv) = <<>>

\* C24 as stated: after a failed capture of a canvas whose content did not
\* change, the next tick that hashes the canvas detects the change again.
FailedCaptureRetriedNextTick ==
  \A cv \in CanvasSet :
    (on /\ CaptureFailedFor(cv) /\ BaselineIsContent(cv)) =>
      \A h \in rafPending : \A in \in PaintInputs :
        PaintRun(h, in).obs[cv] # "none" => PaintRun(h, in).obs[cv] = "change"

\* C24: a detection stores the new hash as the baseline before the capture,
\* whether toDataURL succeeds or not; a capture that fails is not attempted
\* again in its tick; and while the canvas shows what it showed at the
\* detection, the ticks that follow find the distance 0 and attempt no
\* capture.
FailedCaptureNotRetried ==
  /\ \A q \in TickRuns : \A cv \in CanvasSet :
       q.obs[cv] = "change" => Get(q.lastHash, cv) = Some(FrameHash[content[cv]])
  /\ \A t \in ticks : \A q \in ResolveRuns(t, null) :
       /\ t \notin q.ticks
       /\ NothingDoneFor(q, t.cv)
  /\ \A cv \in CanvasSet :
       (CaptureFailedFor(cv) /\ BaselineIsContent(cv)) =>
         \A q \in TickRuns : q.obs[cv] \in {"none", "same"} /\ NothingDoneFor(q, cv)

\* A capture failed, the canvas still shows the frame that was not captured,
\* and the next tick is requested.
NextTickAfterFailedCapture ==
  \E cv \in CanvasSet :
    /\ on
    /\ rafId \in rafPending
    /\ CaptureFailedFor(cv)
    /\ BaselineIsContent(cv)
    /\ content[cv] = 2

(***************************************************************************)
(* Canvases a tick skips.                                                  *)
(***************************************************************************)
\* The iteration that finds s skips its canvas: the width or the height is
\* below 1, or hashCanvasPixels gives no hash.
Skipped(s) == s.w < 1 \/ s.h < 1 \/ ~s.readable

\* C25: a tick that finds a canvas with a width or height below 1, or that
\* cannot hash it, does nothing for that canvas: the stored hash and the
\* counter stay as they are, no capture is started and no entry appended.
SkippedCanvasUntouched ==
  /\ on =>
       \A h \in rafPending : \A in \in PaintInputs : \A cv \in CanvasSet :
         Skipped(in[cv]) =>
           /\ NothingDoneFor(PaintRun(h, in), cv)
           /\ PaintRun(h, in).obs[cv] = "none"
  /\ \A t \in ticks : \A d \in FallbackResults : \A in \in InputsFrom(t.idx + 1) :
       \A j \in (t.idx + 1)..Len(Canvases) :
         Skipped(in[Canvases[j]]) =>
           /\ NothingDoneFor(ResolveRun(t, d, in), Canvases[j])
           /\ ResolveRun(t, d, in).obs[Canvases[j]] = "none"

\* A tick ended in the exception of hashCanvasPixels (the loop is on, with no
\* callback requested and no capture awaited), and every canvas still has its
\* stored hash.
StoredHashKeptWhenUnreadable ==
  /\ on
  /\ rafPending = {}
  /\ ticks = {}
  /\ \A cv \in CanvasSet : Get(lastHash, cv) # null

\* C26: when hashCanvasPixels cannot read a canvas, the tick is not ended by
\* an exception and goes on to capture the canvas through
\* captureElementRect.
UnreadableCanvasFallsBack ==
  on =>
    \A h \in rafPending : \A in \in PaintInputs : \A j \in 1..Len(Canvases) :
      LET q == PaintRun(h, in)
          c == Canvases[j]
      IN  (/\ in[c].w >= 1 /\ in[c].h >= 1 /\ ~in[c].readable
           /\ Reached(q, j)
           /\ \A i \in 1..(j - 1) : ~hashThrows(in[Canvases[i]]))
          => /\ ~q.threw
             /\ PendingOf(q.ticks, c) \ PendingOf(ticks, c) # {}

(***************************************************************************)
(* The canvas watch started with options of every kind.  arg is the        *)
(* options object of the start() that began the current session.           *)
(***************************************************************************)
\* Options objects: autoDownload false or true, with and without tabId,
\* threshold and hashSize.  A missing field is null.
StartOpts ==
  [autoDownload : {Some(FALSE), Some(TRUE)}, tabId : {null, Some(7)},
   threshold : {null, Some(10)}, hashSize : {null, Some(16)}]

\* The message startCanvasWatch with the options opts.
StartWith(opts) ==
  \/ /\ on
     /\ BecomesProg(startCanvasWatch(Prog, opts))
     /\ UNCHANGED <<arg, res>>
  \/ /\ ~on
     /\ BecomesProg(MarkOld(startCanvasWatch(Prog, opts)))
     /\ arg' = Some(opts)
     /\ UNCHANGED res

NextOpts ==
  \/ \E opts \in StartOpts : StartWith(opts)
  \/ Stop
  \/ \E h \in rafPending : Paint(h)
  \/ \E t \in ticks : Resolve(t)
  \/ \E cv \in CanvasSet, k \in Frames : draws < OptDraws /\ Draw(cv, k)

SpecOpts == Init /\ [][NextOpts]_vars

TimesSent(e) ==
  Cardinality({j \in 1..Len(sink) : sink[j] = AutoName(e.filename)})

EntrySentWithTab ==
  /\ arg # null
  /\ Val(arg).autoDownload = Some(TRUE)
  /\ Val(arg).tabId # null
  /\ \E i \in 1..Len(images) : ~images[i].old /\ TimesSent(images[i]) = 1

(***************************************************************************)
(* getCached.                                                              *)
(***************************************************************************)
\* What the copy of an entry made by sendResponse holds: the fields the script
\* gave the entry, all of them strings and numbers.
Cloned(e) ==
  [url |-> e.url, width |-> e.width, height |-> e.height,
   filename |-> e.filename, type |-> e.type]

ClonedAll(imgs) == [i \in 1..Len(imgs) |-> Cloned(imgs[i])]

\* getCached, were the reader handed STATE.images itself.
getCachedShared(p) ==
  [ok |-> TRUE, images |-> ClonedAll(p.images), shared |-> TRUE]

\* The response of getCached (lines 633-636), as the panel receives it.
\* sendResponse serialises its argument, so that the panel holds a copy:
\* shared tells whether the array received is STATE.images itself.  (The
\* model has no lastScanAt.)
getCached(p) ==
  [ok |-> TRUE, images |-> ClonedAll(p.images), shared |-> FALSE]

\* The message getCached.
GetCached ==
  /\ BecomesProg(Prog)
  /\ res' = Some(getCached(Prog))
  /\ UNCHANGED arg

\* The entries the panel reads in the response it holds.
Held == IF Val(res).shared THEN ClonedAll(images) ELSE Val(res).images

NextSnap ==
  \/ \E opts \in PanelOpts : Start(opts)
  \/ \E h \in rafPending : Paint(h)
  \/ \E t \in ticks : Resolve(t)
  \/ \E cv \in CanvasSet, k \in Frames : draws < OptDraws /\ Draw(cv, k)
  \/ ScanAllMsg
  \/ \E s \in scans : ScanResolve(s)
  \/ GetCached

SpecSnap == Init /\ [][NextSnap]_vars

StartWhileRunningChangesNothing ==
  on => \A opts \in StartOpts :
          LET q == startCanvasWatch(Prog, opts)
          IN  /\ q.autoDownload = autoDownload
              /\ q.targetTabId = targetTabId
              /\ q.threshold = threshold
              /\ q.lastHash = lastHash
              /\ q.seq = seq
              /\ q.rafPending = rafPending
              /\ q.rafId = rafId
              /\ q = Prog

\* The watch is on with autoDownload and a tab set, a hash stored and a frame
\* counted for a canvas, and a callback requested.
RunningWithBaselineAndCounter ==
  /\ on
  /\ autoDownload
  /\ targetTabId # null
  /\ rafPending # {}
  /\ \E cv \in CanvasSet : Get(lastHash, cv) # null /\ SeqOf(seq, cv) > 0

(***************************************************************************)
(* The first tick of a session.                                            *)
(***************************************************************************)
\* The message startCanvasWatch; arg records the handle of the callback that
\* the start of a session requests (line 470).
StartSession(opts) ==
  \/ /\ on
     /\ BecomesProg(startCanvasWatch(Prog, opts))
     /\ UNCHANGED <<arg, res>>
  \/ /\ ~on
     /\ BecomesProg(MarkOld(startCanvasWatch(Prog, opts)))
     /\ arg' = Some(startCanvasWatch(Prog, opts).rafId)
     /\ UNCHANGED res

\* The host paints; the first tick of the session is over once it has run.
PaintSession(h) ==
  /\ h \in rafPending
  /\ \E in \in PaintInputs : BecomesProg(PaintRun(h, in))
  /\ arg' = IF arg = Some(h) THEN null ELSE arg
  /\ UNCHANGED res

\* stopCanvasWatch cancels the callback of rafId (line 478): a first tick not
\* yet run never runs.
StopSession ==
  /\ BecomesProg(MarkStopped(stopCanvasWatch(Prog)))
  /\ arg' = IF on THEN null ELSE arg
  /\ UNCHANGED res

NextSession ==
  \/ \E opts \in PanelOpts : StartSession(opts)
  \/ StopSession
  \/ \E h \in rafPending : PaintSession(h)
  \/ \E t \in ticks : Resolve(t)
  \/ \E cv \in CanvasSet, k \in Frames : Draw(cv, k)

SpecSession == Init /\ [][NextSession]_vars

\* The runs of the first tick of the session, while it has not run.
FirstTickRuns ==
  UNION {{PaintRun(h, in) : in \in PaintInputs} :
           h \in {g \in rafPending : arg = Some(g)}}

\* C31: startCanvasWatch, called while the watch is off, leaves no hash and
\* no counter stored, and the first tick of the session stores hashes only:
\* it compares no hash, counts no frame, starts no capture and pushes no
\* entry, whatever the page drew while the watch was off.
FirstTickOnlyStoresBaselines ==
  /\ ~on => \A opts \in PanelOpts :
              LET q == startCanvasWatch(Prog, opts)
              IN  q.lastHash = NewWeakMap /\ q.seq = NewWeakMap
  /\ \A q \in FirstTickRuns :
       /\ q.images = images
       /\ q.seq = seq
       /\ q.ticks = ticks
       /\ \A cv \in CanvasSet : q.obs[cv] \in {"first", "none"}

(***************************************************************************)
(* After stopCanvasWatch.                                                  *)
(***************************************************************************)
NextQuiet ==
  \/ \E opts \in PanelOpts : Start(opts)
  \/ Stop
  \/ \E h \in rafPending : Paint(h)
  \/ \E t \in ticks : Resolve(t)
  \/ \E cv \in CanvasSet, k \in Frames : draws < OptDraws /\ Draw(cv, k)

\* The host goes on painting, and the background page answers every
\* captureVisible message.
SpecQuiet ==
  /\ Init
  /\ [][NextQuiet]_vars
  /\ WF_vars(\E h \in rafPending : Paint(h))
  /\ WF_vars(\E t \in ticks : Resolve(t))

\* No callback is requested and no tick is suspended.
Quiescent == rafPending = {} /\ ticks = {}

\* C32: once the watch is off it is started again, or in the end no callback
\* is requested and no tick is suspended; and from then on, until the watch
\* is started, STATE.images does not change and no callback is requested.
QuiescentAfterStop ==
  /\ [](~on => <>(on \/ Quiescent))
  /\ [][(~on /\ Quiescent /\ ~on') => (Quiescent' /\ images' = images)]_vars

\* The watch was stopped, started and stopped again while a tick is suspended
\* in its capture.
StoppedTwiceWithCapturePending ==
  /\ ~on
  /\ \E t \in ticks : t.stopped /\ t.old

(***************************************************************************)
(* captureElementRect step by step (lines 198-230).  Only the vertical     *)
(* position of the element counts here: window and element are as wide as  *)
(* each other.  arg holds the locals of the call and the page's scroll     *)
(* position, res the calls the function has made so far, in their order.   *)
(***************************************************************************)
\* The variables of the watch and of the scans stay as they are.
WatchUnchanged ==
  UNCHANGED <<on, rafId, lastHash, seq, threshold, autoDownload, targetTabId,
              images, seenNames, rafPending, ticks, sink, content, draws,
              trig, drift, autoScan, scans, scanned>>

\* window.innerHeight and the height of the element, in pixels.
Window == [innerHeight |-> 4]
El == [height |-> 2]

\* The places the top of the element can have in the viewport: above it,
\* across its upper edge, inside, across its lower edge.
Tops == {-3, -1, 0, 1, 2, 3}

\* The test of lines 209-214 for a rectangle with the top `top`.
OutOfView(top) == top < 0 \/ top + El.height > Window.innerHeight

\* Where el.scrollIntoView({ block: 'center' }) can leave the element: in
\* the centre, or as near to it as the document can scroll.
ScrollTargets == {-1, 1, 3}

\* getBoundingClientRect() of the element with the top `top`, in halves of a
\* pixel.
RectAt(top) ==
  [x |-> 0, y |-> 2 * top, width |-> 2 * El.height, height |-> 2 * El.height]

\* ensureInView, were the wait after scrollIntoView left out.
ensureInViewUnwaited(c, target) ==
  IF OutOfView(c.top)
  THEN [c EXCEPT !.first = Some(c.top), !.top = target, !.pc = "wait140"]
  ELSE [c EXCEPT !.first = Some(c.top), !.pc = "wait140"]

\* ensureInView(el) to its await (lines 207-217); the scroll leaves the
\* element at target.  After it the call waits in waitForNextPaint(150), or,
\* nothing having been scrolled, in the waitForNextPaint(140) of line 225.
ensureInView(c, target) ==
  IF OutOfView(c.top)
  THEN [c EXCEPT !.first = Some(c.top), !.top = target, !.pc = "wait150"]
  ELSE [c EXCEPT !.first = Some(c.top), !.pc = "wait140"]

\* Lines 226-227: the rectangle is read and the message captureVisible sent.
readRect(c) == [c EXCEPT !.rect = Some(c.top), !.pc = "await"]

\* Lines 228-241, for the response of the case k: the rectangle cropped, if
\* the response has an image that decodes.
cropStep(c, k) ==
  [c EXCEPT !.pc = "done",
            !.crop = IF k.provider = "image" /\ k.decodes
                     THEN Some(cropRect(RectAt(Val(c.rect)), 2)) ELSE null]

InitCapture ==
  /\ Loaded
  /\ arg \in [pc : {"ensureInView"}, top : Tops, frames : {0},
               first : {null}, rect : {null}, crop : {null}]
  /\ res = << >>

\* captureElementRect is called: ensureInView runs to its await.
EnsureInView ==
  /\ arg.pc = "ensureInView"
  /\ \E target \in ScrollTargets :
       /\ arg' = ensureInView(arg, target)
       /\ res' = IF OutOfView(arg.top) THEN <<"scrollIntoView">> ELSE << >>
  /\ WatchUnchanged

\* The host paints: one of the two nested requestAnimationFrame callbacks of
\* waitForNextPaint (line 201) runs.
Frame ==
  /\ arg.pc \in {"wait150", "wait140"}
  /\ arg.frames < 2
  /\ arg' = [arg EXCEPT !.frames = @ + 1]
  /\ res' = Append(res, "frame")
  /\ WatchUnchanged

\* The timer of waitForNextPaint (line 202) fires after the two frames, and
\* the function goes on to the next wait or to lines 226-227.
Timeout ==
  /\ arg.pc \in {"wait150", "wait140"}
  /\ arg.frames = 2
  /\ \/ /\ arg.pc = "wait150"
        /\ arg' = [arg EXCEPT !.pc = "wait140", !.frames = 0]
        /\ res' = Append(res, "timeout150")
     \/ /\ arg.pc = "wait140"
        /\ arg' = readRect([arg EXCEPT !.frames = 0])
        /\ res' = res \o <<"timeout140", "getBoundingClientRect", "captureVisible">>
  /\ WatchUnchanged

\* The background answers.
Response ==
  /\ arg.pc = "await"
  /\ \E k \in CaptureCases : arg' = cropStep(arg, k)
  /\ UNCHANGED res
  /\ WatchUnchanged

\* The page scrolls while the call is under way.
PageScrolls ==
  /\ arg.pc # "done"
  /\ \E top \in Tops \ {arg.top} : arg' = [arg EXCEPT !.top = top]
  /\ UNCHANGED res
  /\ WatchUnchanged

NextCapture ==
  \/ EnsureInView
  \/ Frame
  \/ Timeout
  \/ Response
  \/ PageScrolls

SpecCapture == InitCapture /\ [][NextCapture]_vars

\* The calls made before the call at place i of res.
Before(i) == SubSeq(res, 1, i - 1)

\* C33: when the message captureVisible is sent, two frames and the timer of
\* 140 ms have passed just before the rectangle was read, and the rectangle
\* was read just before the message; if the element was out of view at the
\* call, scrollIntoView was called first and two frames and the timer of
\* 150 ms passed after it, before the other wait began; and the rectangle
\* cropped is computed from the rectangle read then.
RequestAfterScrollAndWait ==
  /\ \A i \in 1..Len(res) :
       res[i] = "captureVisible" =>
         /\ i >= 5
         /\ SubSeq(res, i - 4, i - 1) =
              <<"frame", "frame", "timeout140", "getBoundingClientRect">>
         /\ OutOfView(Val(arg.first)) =>
              Before(i - 4) = <<"scrollIntoView", "frame", "frame", "timeout150">>
         /\ ~OutOfView(Val(arg.first)) => Before(i - 4) = << >>
  /\ arg.crop # null =>
       /\ arg.rect # null
       /\ Val(arg.crop) = cropRect(RectAt(Val(arg.rect)), 2)

\* The element was out of view at the call, the page has scrolled since the
\* rectangle was read, and the screenshot was cropped.
CroppedAfterScroll ==
  /\ arg.pc = "done"
  /\ arg.crop # null
  /\ OutOfView(Val(arg.first))
  /\ arg.top # Val(arg.rect)

(***************************************************************************)
(* settings.js: the settings object in chrome.storage.sync.  arg.stored is *)
(* what the storage holds under KEY, null when nothing was stored, and     *)
(* arg.calls the calls of setSetting made so far with their locals.  A     *)
(* settings object is a record of its keys; a key it does not have reads   *)
(* as "undefined".                                                         *)
(***************************************************************************)
DefaultSettings == [uiMode |-> "sidepanel", theme |-> "undefined"]

\* getSettings() (lines 15-18), the storage holding stored.
getSettings(stored) == IF stored = null THEN DefaultSettings ELSE Val(stored)

\* setSetting(key, value) at its first await (line 37).  fn and given are
\* history: the function called from outside and its argument.
setSetting(key, value) ==
  [fn |-> "setSetting", given |-> value, key |-> key, value |-> value,
   pc |-> "get", current |-> null]

\* setUIMode, were the mode stored as it is given.
setUIModeUnchecked(mode) ==
  [setSetting("uiMode", mode) EXCEPT !.fn = "setUIMode", !.given = mode]

\* setUIMode(mode) (lines 48-51).
setUIMode(mode) ==
  LET valid == IF mode = "popup" THEN "popup" ELSE "sidepanel"
  IN  [setSetting("uiMode", valid) EXCEPT !.fn = "setUIMode", !.given = mode]

\* Lines 37-39 of the call c: getSettings resolved with what the storage
\* holds, the key is set in that object and the object is sent to the storage.
afterGet(c, stored) ==
  [c EXCEPT !.current = Some([getSettings(stored) EXCEPT ![c.key] = c.value]),
            !.pc = "set"]

\* What setUIMode is called with, and the values given to setSetting for the
\* key theme.
Modes == {"popup", "sidepanel", "Popup", "window", ""}
Themes == {"dark", "light"}

InitSettings ==
  /\ Loaded
  /\ arg = [stored |-> null, calls |-> << >>]
  /\ res = null

\* setUIMode(mode) is called.
CallSetUIMode ==
  /\ Len(arg.calls) < MaxSets
  /\ \E mode \in Modes : arg' = [arg EXCEPT !.calls = Append(@, setUIMode(mode))]
  /\ UNCHANGED res
  /\ WatchUnchanged

\* setSetting('theme', value) is called.
CallSetSetting ==
  /\ Len(arg.calls) < MaxSets
  /\ \E value \in Themes :
       arg' = [arg EXCEPT !.calls = Append(@, setSetting("theme", value))]
  /\ UNCHANGED res
  /\ WatchUnchanged

\* chrome.storage.sync.get resolves for call i.
GetResolves(i) ==
  /\ i \in 1..Len(arg.calls)
  /\ arg.calls[i].pc = "get"
  /\ arg' = [arg EXCEPT !.calls[i] = afterGet(@, arg.stored)]
  /\ UNCHANGED res
  /\ WatchUnchanged

\* chrome.storage.sync.set stores the object of call i (line 27), and the
\* call returns.
SetResolves(i) ==
  /\ i \in 1..Len(arg.calls)
  /\ arg.calls[i].pc = "set"
  /\ arg' = [arg EXCEPT !.stored = arg.calls[i].current,
                        !.calls[i].pc = "done"]
  /\ UNCHANGED res
  /\ WatchUnchanged

NextSettings ==
  \/ CallSetUIMode
  \/ CallSetSetting
  \/ \E i \in 1..MaxSets : GetResolves(i)
  \/ \E i \in 1..MaxSets : SetResolves(i)

SpecSettings == InitSettings /\ [][NextSettings]_vars

\* C34: once the calls of setSetting have all returned, the stored object
\* holds, under every key that was set, a value some call gave that key.
BothSettingsTakeEffect ==
  (\A i \in 1..Len(arg.calls) : arg.calls[i].pc = "done") =>
    \A i \in 1..Len(arg.calls) :
      /\ arg.stored # null
      /\ \E j \in 1..Len(arg.calls) :
           /\ arg.calls[j].key = arg.calls[i].key
           /\ Val(arg.stored)[arg.calls[i].key] = arg.calls[j].value

\* C35: a call of setUIMode stores "popup" if it was given exactly "popup"
\* and "sidepanel" for everything else, so that the stored uiMode is one of
\* the two whatever calls of setUIMode were made and however they overlap;
\* getSettings gives the uiMode "sidepanel" when nothing is stored.
UIModeIsSidepanelOrPopup ==
  /\ \A i \in 1..Len(arg.calls) :
       arg.calls[i].fn = "setUIMode" =>
         /\ arg.calls[i].key = "uiMode"
         /\ arg.calls[i].value = "popup" <=> arg.calls[i].given = "popup"
         /\ arg.calls[i].value # "popup" => arg.calls[i].value = "sidepanel"
         /\ arg.calls[i].current # null =>
              Val(arg.calls[i].current).uiMode = arg.calls[i].value
  /\ getSettings(arg.stored).uiMode \in {"sidepanel", "popup"}
  /\ arg.stored = null => getSettings(arg.stored).uiMode = "sidepanel"

\* "popup" had been stored, and a call of setUIMode with something that is
\* neither mode has stored "sidepanel".
InvalidModeStoredAsSidepanel ==
  /\ Len(arg.calls) = 2
  /\ arg.calls[1].given = "popup"
  /\ arg.calls[2].given = "Popup"
  /\ \A i \in 1..2 : arg.calls[i].pc = "done"
  /\ arg.calls[2].current = Some([uiMode |-> "sidepanel", theme |-> "undefined"])
  /\ arg.stored = arg.calls[2].current

(***************************************************************************)
(* A click on the extension action (background.js 32-45, settings.js       *)
(* 76-89).  arg is what the click meets, res the user interfaces opened, in *)
(* their order.  chrome.windows.create is taken to open its window.        *)
(***************************************************************************)
\* What a click meets: whether the two reads of the settings succeed, the
\* uiMode stored, whether chrome.sidePanel exists, tab?.id ?? null, and
\* whether sidePanel.setOptions and sidePanel.open succeed.
ClickCases ==
  [read1 : BOOLEAN, read2 : BOOLEAN, uiMode : {"sidepanel", "popup", "window"},
   sidePanel : BOOLEAN, tabId : {null, Some(7)},
   setOptions : BOOLEAN, open : BOOLEAN]

\* openUI without the return of line 82.
openUIFallingThrough(c) ==
  IF ~c.read2 THEN [opened |-> << >>, threw |-> TRUE]
  ELSE IF c.uiMode = "sidepanel" /\ c.sidePanel /\ c.tabId # null
            /\ c.setOptions /\ c.open
       THEN [opened |-> <<"sidepanel", "popup">>, threw |-> FALSE]
       ELSE [opened |-> <<"popup">>, threw |-> FALSE]

\* openUI(tabId) (lines 76-89) in the case c: what it opened and whether it
\* threw.
openUI(c) ==
  IF ~c.read2 THEN [opened |-> << >>, threw |-> TRUE]
  ELSE IF c.uiMode = "sidepanel" /\ c.sidePanel /\ c.tabId # null
            /\ c.setOptions /\ c.open
       THEN [opened |-> <<"sidepanel">>, threw |-> FALSE]
       ELSE [opened |-> <<"popup">>, threw |-> FALSE]

\* The listener of chrome.action.onClicked (background.js 32-45): what is
\* opened.
onClicked(c) ==
  IF ~c.read1 THEN <<"popup">>
  ELSE LET r == openUI(c)
       IN  IF r.threw THEN r.opened \o <<"popup">> ELSE r.opened

InitClick ==
  /\ Loaded
  /\ arg \in ClickCases
  /\ res = null

\* The user clicks the action and the listener runs to its end.
Click ==
  /\ res = null
  /\ res' = Some(onClicked(arg))
  /\ UNCHANGED arg
  /\ WatchUnchanged

NextClick == Click

SpecClick == InitClick /\ [][NextClick]_vars

\* C36: a click opens one user interface: the side panel if the settings
\* were read, the uiMode is "sidepanel", chrome.sidePanel exists, the tab id
\* is not null and setOptions and open succeed, and a popup window in every
\* other case.
ClickOpensOneUI ==
  res # null =>
    /\ Len(Val(res)) = 1
    /\ Val(res)[1] =
         IF /\ arg.read1 /\ arg.read2
            /\ arg.uiMode = "sidepanel"
            /\ arg.sidePanel
            /\ arg.tabId # null
            /\ arg.setOptions /\ arg.open
         THEN "sidepanel" ELSE "popup"

\* The side panel failed to open, and one popup window was opened.
PopupAfterSidePanelFailed ==
  /\ arg.read1 /\ arg.read2
  /\ arg.uiMode = "sidepanel" /\ arg.sidePanel /\ arg.tabId # null
  /\ arg.setOptions /\ ~arg.open
  /\ res = Some(<<"popup">>)

(***************************************************************************)
(* The message captureVisible in the background (background.js 53-77,      *)
(* 108-126).  arg is the request and what chrome.tabs does with it, res    *)
(* the responses sent.                                                     *)
(***************************************************************************)
\* A request: msg.tabId and sender.tab.id, null when missing; whether
\* tabs.get and tabs.update succeed; and what captureVisibleTab gives: a
\* URL, lastError, an empty URL or an exception.
ProviderCases ==
  [tabId : {null, Some(0), Some(7)}, senderTab : {null, Some(5)},
   get : BOOLEAN, update : BOOLEAN,
   capture : {"url", "lastError", "empty", "throws"}]

\* What the calls of chrome.tabs in lines 59-71 come to.
ProviderOutcome(k) ==
  IF ~k.get \/ ~k.update \/ k.capture = "throws" THEN "error"
  ELSE IF k.capture = "url" THEN "image"
  ELSE "none"

\* The listener (lines 108-126) for a message captureVisible: the responses
\* it sends.  captureVisible throws nothing, so that the catch of line 120
\* sends nothing.
onCaptureVisible(k) ==
  LET tabId == IF k.tabId # null THEN k.tabId ELSE k.senderTab
  IN  << captureVisible(tabId, [provider |-> ProviderOutcome(k)]) >>

InitProvider ==
  /\ Loaded
  /\ arg \in ProviderCases
  /\ res = null

\* The background receives the message and answers it.
Answer ==
  /\ res = null
  /\ res' = Some(onCaptureVisible(arg))
  /\ UNCHANGED arg
  /\ WatchUnchanged

NextProvider == Answer

SpecProvider == InitProvider /\ [][NextProvider]_vars

\* The request has no usable tab id, or a call of chrome.tabs fails.
ProviderFails(k) ==
  \/ (IF k.tabId # null THEN k.tabId ELSE k.senderTab) \in {null, Some(0)}
  \/ ~k.get
  \/ ~k.update
  \/ k.capture # "url"

\* C37: a message captureVisible is answered with one response; ok is true
\* in it exactly when dataUrl is a URL that is not empty; and the response
\* is {ok: false, dataUrl: null} when the request has no tab id, when
\* tabs.get or tabs.update fails and when the capture fails.
OneResponseOkIffImage ==
  res # null =>
    /\ Len(Val(res)) = 1
    /\ LET r == Val(res)[1]
       IN  /\ r.ok <=> (r.dataUrl # null /\ Val(r.dataUrl) # "")
           /\ ProviderFails(arg) => r = [ok |-> FALSE, dataUrl |-> null]
           /\ ~ProviderFails(arg) => r.ok

\* A request without tabId, sent from a tab whose capture ended with
\* lastError, was answered with {ok: false, dataUrl: null}.
CaptureErrorAnswered ==
  /\ arg.tabId = null /\ arg.senderTab # null
  /\ arg.get /\ arg.update /\ arg.capture = "lastError"
  /\ res = Some(<< [ok |-> FALSE, dataUrl |-> null] >>)

(***************************************************************************)
(* The progress bar of the panel (progress.js).  arg is the module's state *)
(* with the bar: taskStates, currentTaskId, the width, text and visibility *)
(* of the bar, the pending timers of end(); and as history the tasks in    *)
(* the order of their creation, the tasks ended and the task of the last   *)
(* step.  A text is the label shown, or the percentage when the label is   *)
(* empty.                                                                  *)
(***************************************************************************)
Tasks == {"scan", "download"}

\* { done: 0, total: 0, label: '' }
NewTaskState == [done |-> 0, total |-> 0, label |-> ""]

\* Math.min(100, Math.round((done / total) * 100))
Pct(done, total) ==
  LET r == (200 * done + total) \div (2 * total)
  IN  IF r > 100 THEN 100 ELSE r

\* updateUI(taskId) (lines 96-111), the elements being attached.
updateUI(m, taskId) ==
  LET state == m.taskStates[taskId]
  IN  IF state = null THEN m
      ELSE LET st == Val(state)
           IN  IF st.total <= 0
               THEN [m EXCEPT !.ui = [width |-> 0,
                                      text |-> [label |-> st.label, pct |-> -1],
                                      hidden |-> TRUE]]
               ELSE LET pct == Pct(st.done, st.total)
                    IN  [m EXCEPT !.ui =
                           [width |-> pct,
                            text |-> IF st.label # ""
                                     THEN [label |-> st.label, pct |-> -1]
                                     ELSE [label |-> "", pct |-> pct],
                            hidden |-> FALSE]]

\* createProgress(taskId) (lines 36-40).
createProgress(m, taskId) ==
  updateUI([m EXCEPT !.currentTaskId = Some(taskId),
                     !.taskStates[taskId] = Some(NewTaskState),
                     !.order = Append(@, taskId),
                     !.actor = Some(taskId)],
           taskId)

\* start(total, label) of the task (lines 42-47).
progressStart(m, taskId, total, label) ==
  updateUI([m EXCEPT !.taskStates[taskId] =
                       Some([done |-> 0, total |-> total, label |-> label]),
                     !.actor = Some(taskId)],
           taskId)

\* set(done) of the task (lines 48-53), total and label as they are.
progressSet(m, taskId, done) ==
  updateUI([m EXCEPT !.taskStates[taskId] = Some([Val(@) EXCEPT !.done = done]),
                     !.actor = Some(taskId)],
           taskId)

\* tick() of the task (lines 54-58).
progressTick(m, taskId) ==
  updateUI([m EXCEPT !.taskStates[taskId] =
                       Some([Val(@) EXCEPT !.done = @ + 1]),
                     !.actor = Some(taskId)],
           taskId)

\* end() of the task (lines 59-67), with its timer set.
progressEnd(m, taskId) ==
  updateUI([m EXCEPT !.taskStates[taskId] =
                       Some([Val(@) EXCEPT !.done = Val(m.taskStates[taskId]).total,
                                           !.label = "Done"]),
                     !.timers = @ \cup {taskId},
                     !.ended = @ \cup {taskId},
                     !.actor = Some(taskId)],
           taskId)

\* The timer of end() fires (line 65).
autoHide(m, taskId) ==
  [m EXCEPT !.ui.hidden = TRUE, !.timers = @ \ {taskId},
            !.actor = Some(taskId)]

\* attachProgress was called: the bar is hidden.
InitProgress ==
  /\ Loaded
  /\ arg = [taskStates |-> [t \in Tasks |-> null], currentTaskId |-> null,
            ui |-> [width |-> 0, text |-> [label |-> "", pct |-> -1],
                    hidden |-> TRUE],
            timers |-> {}, order |-> << >>, ended |-> {}, actor |-> null]
  /\ res = null

\* The tasks created and not ended.
ActiveTasks(m) == {t \in Tasks : m.taskStates[t] # null /\ t \notin m.ended}

CreateTask(t) ==
  /\ arg.taskStates[t] = null
  /\ arg' = createProgress(arg, t)
  /\ UNCHANGED res
  /\ WatchUnchanged

StartTask(t) ==
  /\ t \in ActiveTasks(arg)
  /\ \E total \in 0..MaxTotal : \E label \in {"", "Working"} :
       arg' = progressStart(arg, t, total, label)
  /\ UNCHANGED res
  /\ WatchUnchanged

SetTask(t) ==
  /\ t \in ActiveTasks(arg)
  /\ \E done \in 0..MaxTotal : arg' = progressSet(arg, t, done)
  /\ UNCHANGED res
  /\ WatchUnchanged

TickTask(t) ==
  /\ t \in ActiveTasks(arg)
  /\ Val(arg.taskStates[t]).done < MaxTotal
  /\ arg' = progressTick(arg, t)
  /\ UNCHANGED res
  /\ WatchUnchanged

EndTask(t) ==
  /\ t \in ActiveTasks(arg)
  /\ arg' = progressEnd(arg, t)
  /\ UNCHANGED res
  /\ WatchUnchanged

AutoHide(t) ==
  /\ t \in arg.timers
  /\ arg' = autoHide(arg, t)
  /\ UNCHANGED res
  /\ WatchUnchanged

NextProgress ==
  \/ \E t \in Tasks : CreateTask(t)
  \/ \E t \in Tasks : StartTask(t)
  \/ \E t \in Tasks : SetTask(t)
  \/ \E t \in Tasks : TickTask(t)
  \/ \E t \in Tasks : EndTask(t)
  \/ \E t \in Tasks : AutoHide(t)

SpecProgress == InitProgress /\ [][NextProgress]_vars

\* Task u was created after task t.
CreatedAfter(m, u, t) ==
  \E i \in 1..Len(m.order) : \E j \in 1..Len(m.order) :
    i < j /\ m.order[i] = t /\ m.order[j] = u

\* C38: a step of a task (set, tick, end or the timer of its end) leaves the
\* width, the text and the visibility of the bar as they are while a task
\* created after it is active.
LatestTaskOwnsBar ==
  [][(\E u \in ActiveTasks(arg) : CreatedAfter(arg, u, Val(arg'.actor)))
       => arg'.ui = arg.ui]_vars

(***************************************************************************)
(* The canvas-watch toggle of the panel (panel.js 272-307; the auto-scan   *)
(* toggle, 226-265, has the same handler with autoScanInterval).  arg is   *)
(* the checkbox, the calls of the change handler with the await each is    *)
(* at, autoCanvasInterval and the intervals set and not cleared.  Promises *)
(* of the same kind resolve in the order of their calls.                   *)
(***************************************************************************)
InitToggle ==
  /\ Loaded
  /\ arg = [checked |-> FALSE, handlers |-> << >>,
            autoCanvasInterval |-> null, intervals |-> {}]
  /\ res = null

\* A handle setInterval has not given out before.
NewInterval(m) ==
  CHOOSE id \in 1..(MaxToggles + 1) :
    /\ id \notin m.intervals
    /\ Some(id) # m.autoCanvasInterval

\* Line 273 done for the call i: e.target.checked is read as it is now (275),
\* and the message startCanvasWatch or stopCanvasWatch is sent.
afterGetActiveTab(m, i) ==
  [m EXCEPT !.handlers[i] = IF m.checked THEN "start" ELSE "stop"]

\* Lines 277-302, the message startCanvasWatch answered: setInterval.
afterStart(m, i) ==
  LET id == NewInterval(m)
  IN  [m EXCEPT !.handlers[i] = "done",
                !.autoCanvasInterval = Some(id),
                !.intervals = @ \cup {id}]

\* Lines 304-305, the message stopCanvasWatch answered.
afterStop(m, i) ==
  [m EXCEPT !.handlers[i] = "done",
            !.autoCanvasInterval = null,
            !.intervals = IF m.autoCanvasInterval # null
                          THEN @ \ {Val(m.autoCanvasInterval)} ELSE @]

\* The user changes the toggle: the change handler is called and awaits
\* getActiveTab.
Toggle ==
  /\ Len(arg.handlers) < MaxToggles
  /\ arg' = [arg EXCEPT !.checked = ~@, !.handlers = Append(@, "tab")]
  /\ UNCHANGED res
  /\ WatchUnchanged

\* The call i is the first of those at an await of the kinds pcs.
FirstAt(i, pcs) ==
  /\ i \in 1..Len(arg.handlers)
  /\ arg.handlers[i] \in pcs
  /\ \A j \in 1..(i - 1) : arg.handlers[j] \notin pcs

\* getActiveTab resolves for the call i.
TabResolves(i) ==
  /\ FirstAt(i, {"tab"})
  /\ arg' = afterGetActiveTab(arg, i)
  /\ UNCHANGED res
  /\ WatchUnchanged

\* The content script answers the message of the call i.
ContentAnswers(i) ==
  /\ FirstAt(i, {"start", "stop"})
  /\ arg' = IF arg.handlers[i] = "start" THEN afterStart(arg, i)
            ELSE afterStop(arg, i)
  /\ UNCHANGED res
  /\ WatchUnchanged

NextToggle ==
  \/ Toggle
  \/ \E i \in 1..MaxToggles : TabResolves(i)
  \/ \E i \in 1..MaxToggles : ContentAnswers(i)

SpecToggle == InitToggle /\ [][NextToggle]_vars

\* C39: while the toggle is on at most one interval is set, and once it is
\* off and every call of the handler has returned, none is.
AtMostOnePollingInterval ==
  /\ arg.checked => Cardinality(arg.intervals) <= 1
  /\ (~arg.checked /\ \A i \in 1..Len(arg.handlers) : arg.handlers[i] = "done")
       => arg.intervals = {}
====
